---- MODULE Spec2Model ----
(***************************************************************************)
(* A model of doozerlib.runtime.Runtime (src/doozer/doozerlib/runtime.py): *)
(* the image build tree, the pooled koji sessions and source resolution.   *)
(* Each part has its own specification (SpecTree, SpecPool, SpecSource);   *)
(* the variables of the other parts keep their constructed values.         *)
(***************************************************************************)
EXTENDS Integers, Sequences, FiniteSets, TLC

\* ------------------------------------------------------------------------
\* Bounds of the model
\* ------------------------------------------------------------------------
MaxImages == 3
MaxFailed == 2
NumTasks == 2
MaxCalls == 3
NumResolvers == 2
MaxRegs == 2
MaxRules == 2

\* ------------------------------------------------------------------------
\* State
\* ------------------------------------------------------------------------
VARIABLES
    \* image metadata graph
    from_member,      \* declared parent of each image record (0 = none)
    image_map,        \* insertion ordered keys of Runtime.image_map
    parent,           \* ImageMetadata.parent of each image (0 = None)
    children,         \* ImageMetadata.children of each image (a list)
    image_tree,       \* Runtime.image_tree, as the set of its key paths
    image_order,      \* Runtime.image_order
    init_pc,          \* position of initialize: "new", "fatal", "ready"
    failed_out,       \* the list returned by the last filter_failed_image_trees
    failed_in         \* the list the last filter_failed_image_trees was called with

VARIABLES
    \* pooled koji sessions
    session_pool,            \* Runtime.session_pool: slot id -> session object
    session_pool_available,  \* Runtime.session_pool_available, in insertion order
    force_instance_caching,  \* the caching flag of every session object built
    leases,                  \* per task, the sessions of its open contexts (innermost last)
    pool_pc,                 \* per task, its position in pooled_koji_client_session
    want_caching,            \* per task, the caching argument of the call in progress (else FALSE)
    exit_kind,               \* per task, how the body of the context being left ended
    calls,                   \* the calls of pooled_koji_client_session made in the run
    open_at_start,           \* per task, the contexts it is in when the run starts
    ever_caching,            \* history: the sessions ever handed out with caching=True
    crowd                    \* the workers that are not among the tasks: the slot ids
                             \* they hold, and whether they still ask for sessions

VARIABLES
    \* source resolution
    cfg_local,            \* Runtime.local
    cfg_upcycle,          \* Runtime.upcycle
    cfg_public_upstreams, \* group_config.public_upstreams is configured
    cfg_prevent_cloning,  \* initialize(prevent_cloning=...), handed to every meta
    src_phase,            \* "registering" (initialize, lines 472-484), "resolving",
                          \* or "fatal" when initialize raised
    source_args,          \* Runtime.source: the "--source alias path" not yet registered
    source_resolutions,   \* Runtime.source_resolutions: alias -> source path
    dirs,                 \* the source directories that exist on disk
    named_semaphores,     \* Runtime.named_semaphores: key -> semaphore object
    sem_permits,          \* the free permits of every semaphore object
    r_pc,                 \* per caller, its position in resolve_source
    r_meta,               \* per caller, the meta it resolves
    r_alias,              \* per caller, the local variable alias
    r_dir,                \* per caller, the local variable source_dir
    r_sem,                \* per caller, the semaphore it was given
    r_result,             \* per caller, the value returned or the error raised
    r_found,              \* history: what the call found when it began: the alias
                          \* "registered", its "directory" on disk, or "nothing"
    r_locked,             \* history: the caller acquired the alias's semaphore
    r_clone,              \* history: the clone the caller performed: "no", "failed", "ok"
    r_ops                 \* history: what else the caller ran: "detect" (the branch
                          \* detection), "fetch" and "reset" (the refresh)

VARIABLES
    \* shared koji session
    koji_client_session,  \* Runtime._koji_client_session (0 = None)
    koji_lock,            \* Runtime.koji_lock, an RLock: its owner (0 = free) and depth
    koji_built,           \* the sessions shared_koji_client_session has constructed
    sh_pc,                \* per task, its position in shared_koji_client_session
    sh_open,              \* per task, the sessions yielded to its open contexts
    sh_uses,              \* the uses of shared_koji_client_session begun in the run
    sh_yielded            \* history: the session objects ever yielded

VARIABLES
    \* named semaphores (the registry itself is named_semaphores, sem_permits)
    reg_pc,               \* per caller, its position in get_named_semaphore
    reg_args,             \* per caller, the arguments lock_name, is_dir, count
    reg_got               \* per caller, the semaphore returned, and whether it made it

registryVars == <<reg_pc, reg_args, reg_got>>

VARIABLES
    \* public upstream translation
    pu_in,                \* the url given to get_public_upstream and the rules of
                          \* group_config.public_upstreams
    pu_out                \* what get_public_upstream returned

upstreamVars == <<pu_in, pu_out>>

VARIABLES
    \* branch detection
    db_in,                \* the branches of source_details, use_source_fallback_branch
                          \* and Runtime.stage
    db_out                \* what detect_remote_source_branch returned or raised, the
                          \* queries it sent and the answers of the remote

branchVars == <<db_in, db_out>>

VARIABLES
    \* initialize
    opts,                 \* the command line and the arguments of initialize
    data,                 \* what the data store (gitdata) and the releases config hold
    rt                    \* the attributes of the Runtime that initialize and
                          \* push_distgits read and write, and the place initialize is at

initVars == <<opts, data, rt>>

VARIABLES
    \* the git cache
    git_cache             \* the callers of git_clone, the mirrors under git_cache_dir
                          \* and the semaphores held for them

mirrorVars == <<git_cache>>

VARIABLES
    \* elliott find-builds
    fb                    \* the options of the command, the place find_builds_cli is
                          \* at, the builds it holds and the calls it made on the
                          \* advisory

findVars == <<fb>>

VARIABLES
    \* the rpm sweep of find-builds
    sweep                 \* the runtime and the tags _fetch_builds_by_kind_rpm is
                          \* called with, the place it is at, what it was answered
                          \* for the tag before and the builds it has gathered

sweepVars == <<sweep>>

\* The variables of the parts modelled after initialize.
restVars == <<mirrorVars, findVars, sweepVars>>

sharedVars == <<koji_client_session, koji_lock, koji_built, sh_pc, sh_open, sh_uses,
                sh_yielded>>

sourceVars == <<cfg_local, cfg_upcycle, cfg_public_upstreams, cfg_prevent_cloning, src_phase, source_args,
                source_resolutions, dirs, named_semaphores, sem_permits,
                r_pc, r_meta, r_alias, r_dir, r_sem, r_result, r_found, r_locked, r_clone,
                r_ops>>

treeVars == <<from_member, image_map, parent, children, image_tree, image_order,
              init_pc, failed_out, failed_in>>

poolVars == <<session_pool, session_pool_available, force_instance_caching, leases,
              pool_pc, want_caching, exit_kind, calls, open_at_start, ever_caching,
              crowd>>

\* The variables of the parts modelled after the tree, the pool and the sources.
laterVars == <<sharedVars, registryVars, upstreamVars, branchVars, initVars, restVars>>

vars == <<treeVars, poolVars, sourceVars, laterVars>>

\* ------------------------------------------------------------------------
\* Helpers on sequences
\* ------------------------------------------------------------------------
Range(s) == {s[i] : i \in DOMAIN s}

IndexOf(s, x) == CHOOSE i \in DOMAIN s : s[i] = x /\ \A j \in 1..(i - 1) : s[j] # x

IsPrefix(p, q) == Len(p) <= Len(q) /\ \A i \in DOMAIN p : p[i] = q[i]

SeqsUpTo(S, n) == UNION {[1..k -> S] : k \in 0..n}

NoImage == 0

\* ------------------------------------------------------------------------
\* Image metadata graph
\* ------------------------------------------------------------------------
\* Runtime.image_map as loaded by initialize: the image records in load order.
LoadedImages(n) == [i \in 1..n |-> i]

\* ImageMetadata.resolve_parent, for every image of image_map: the declared
\* parent becomes the image's parent and the image is appended to the
\* parent's children, so the parent relation is a function.
ResolvedParent(imap, decl) ==
    [i \in Range(imap) |-> IF decl[i] \in Range(imap) THEN decl[i] ELSE NoImage]

RECURSIVE ChildrenUpTo(_, _, _, _)
ChildrenUpTo(imap, par, p, k) ==
    IF k = 0 THEN <<>>
    ELSE LET rest == ChildrenUpTo(imap, par, p, k - 1)
         IN  IF par[imap[k]] = p THEN Append(rest, imap[k]) ELSE rest

ResolvedChildren(imap, par) ==
    [p \in Range(imap) |-> ChildrenUpTo(imap, par, p, Len(imap))]

\* ImageMetadata.is_ancestor(other): other is reached by walking up the
\* parents of image.
RECURSIVE AncestorWithin(_, _, _, _)
AncestorWithin(par, image, other, steps) ==
    IF steps = 0 \/ par[image] = NoImage THEN FALSE
    ELSE par[image] = other \/ AncestorWithin(par, par[image], other, steps - 1)

is_ancestor(par, image, other) ==
    AncestorWithin(par, image, other, Cardinality(DOMAIN par))

\* The cyclic dependency check of initialize: some image has a child that is
\* also its ancestor.
CycleDirectOnly(imap, par, chl) ==
    \E i \in DOMAIN imap :
        \E c \in DOMAIN chl[imap[i]] : par[imap[i]] = chl[imap[i]][c]

CyclicDependency(imap, par, chl) ==
    \E i \in DOMAIN imap :
        \E c \in DOMAIN chl[imap[i]] : is_ancestor(par, imap[i], chl[imap[i]][c])

\* image_lists[level].append(key), creating nothing: the level exists.
AppendAt(lists, level, key) == [lists EXCEPT ![level] = Append(@, key)]

\* "if level not in image_lists: image_lists[level] = []"
EnsureLevel(lists, level) ==
    IF level \in DOMAIN lists THEN lists
    ELSE [l \in DOMAIN lists \cup {level} |-> IF l = level THEN <<>> ELSE lists[l]]

\* branch[key] = {} in the nested dict whose branch is reached by path.
SetBranch(tree, path, key) ==
    {p \in tree : ~IsPrefix(Append(path, key), p)} \cup {Append(path, key)}

\* add_child_branch(child, branch, level), from the i-th sub_child on; st is
\* the pair of image_lists and image_tree built so far.
RECURSIVE ChildLoop(_, _, _, _, _, _, _)
ChildLoop(imap, chl, child, path, level, i, st) ==
    IF i > Len(chl[child]) THEN st
    ELSE LET sub_child == chl[child][i]
         IN  IF sub_child \notin Range(imap)
             THEN ChildLoop(imap, chl, child, path, level, i + 1, st)
             ELSE LET st1 == [lists |-> AppendAt(st.lists, level, sub_child),
                              tree  |-> SetBranch(st.tree, path, sub_child)]
                      st2 == ChildLoop(imap, chl, sub_child, Append(path, sub_child),
                                       level + 1, 1,
                                       [st1 EXCEPT !.lists = EnsureLevel(@, level + 1)])
                  IN  ChildLoop(imap, chl, child, path, level, i + 1, st2)

add_child_branch(imap, chl, child, path, level, st) ==
    ChildLoop(imap, chl, child, path, level, 1,
              [st EXCEPT !.lists = EnsureLevel(@, level)])

\* The loop over image_map.values() of generate_image_tree, from the k-th on.
RECURSIVE RootLoop(_, _, _, _, _)
RootLoop(imap, par, chl, k, st) ==
    IF k > Len(imap) THEN st
    ELSE LET image == imap[k]
         IN  IF par[image] = NoImage
             THEN LET st1 == [lists |-> AppendAt(st.lists, 0, image),
                              tree  |-> SetBranch(st.tree, <<>>, image)]
                  IN  RootLoop(imap, par, chl, k + 1,
                               add_child_branch(imap, chl, image, <<image>>, 1, st1))
             ELSE RootLoop(imap, par, chl, k + 1, st)

\* The final loops of generate_image_tree: the levels in ascending order,
\* each key appended unless it is already in image_order.
RECURSIVE AppendNew(_, _, _)
AppendNew(order, list, i) ==
    IF i > Len(list) THEN order
    ELSE AppendNew(IF list[i] \in Range(order) THEN order ELSE Append(order, list[i]),
                   list, i + 1)

RECURSIVE OrderDescending(_, _, _)
OrderDescending(lists, level, order) ==
    IF level \notin DOMAIN lists THEN order
    ELSE AppendNew(OrderDescending(lists, level + 1, order), lists[level], 1)

RECURSIVE OrderFrom(_, _, _)
OrderFrom(lists, level, order) ==
    IF level \notin DOMAIN lists THEN order
    ELSE OrderFrom(lists, level + 1, AppendNew(order, lists[level], 1))

generate_image_tree(imap, par, chl) ==
    LET st == RootLoop(imap, par, chl, 1, [lists |-> [l \in {0} |-> <<>>], tree |-> {}])
    IN  [image_tree |-> st.tree, image_order |-> OrderFrom(st.lists, 0, <<>>)]

\* The images whose parent is in the list as it was passed.
FailedChildren(order, par, failed, k) ==
    failed \o SelectSeq(order, LAMBDA i : par[i] # NoImage /\ par[i] \in Range(failed))

\* The first loop of filter_failed_image_trees, over ordered_image_metas().
RECURSIVE FailedLoop(_, _, _, _)
FailedLoop(order, par, failed, k) ==
    IF k > Len(order) THEN failed
    ELSE LET i == order[k]
         IN  FailedLoop(order, par,
                        IF par[i] # NoImage /\ par[i] \in Range(failed)
                        THEN Append(failed, i) ELSE failed,
                        k + 1)

\* "for f in failed: if f in self.image_map: del self.image_map[f]"
DeleteFailed(imap, failed) == SelectSeq(imap, LAMBDA x : x \notin Range(failed))

\* Runtime.__init__: the image maps, tree and order are empty.
TreeConstructed ==
    /\ image_map = <<>>
    /\ parent = <<>>
    /\ children = <<>>
    /\ image_tree = {}
    /\ image_order = <<>>
    /\ init_pc = "new"
    /\ failed_out = <<>>
    /\ failed_in = <<>>

\* Runtime.__init__: "self._koji_client_session = None"; koji_lock is free.
SharedConstructed ==
    /\ koji_client_session = 0
    /\ koji_lock = [owner |-> 0, depth |-> 0]
    /\ koji_built = 0
    /\ sh_pc = [t \in 1..NumTasks |-> "idle"]
    /\ sh_open = [t \in 1..NumTasks |-> <<>>]
    /\ sh_uses = 0
    /\ sh_yielded = {}

NoArgs == [lock_name |-> <<>>, is_dir |-> FALSE, count |-> 1]

NoSemaphore == [sem |-> -1, created |-> FALSE]

\* No call of get_named_semaphore is in progress.
RegistryIdle ==
    /\ reg_pc = [t \in 1..NumTasks |-> "idle"]
    /\ reg_args = [t \in 1..NumTasks |-> NoArgs]
    /\ reg_got = [t \in 1..NumTasks |-> NoSemaphore]

NoUrl == [form |-> "https", segs |-> <<>>, dot_git |-> FALSE]

NoUpstream == [rule |-> -1, url |-> <<>>, branch |-> ""]

\* get_public_upstream has not been called.
UpstreamIdle ==
    /\ pu_in = [url |-> NoUrl, rules |-> <<>>]
    /\ pu_out = NoUpstream

NoBranch == <<>>

NoDetection == [kind |-> "none", branch |-> NoBranch, ref |-> NoBranch,
                queries |-> <<>>, answers |-> <<>>, named |-> {}]

\* detect_remote_source_branch has not been called.
BranchIdle ==
    /\ db_in = [target |-> NoBranch, fallback |-> NoBranch, stage_branch |-> NoBranch,
                mode |-> "", stage |-> FALSE]
    /\ db_out = NoDetection

\* self.assembly = None
NoneAssembly == <<"None">>

\* None where an event is expected: as false as 0 is.
NoEvent == 0

NoReleases == [defines |-> NoneAssembly, group |-> FALSE, basis |-> NoEvent]

NoGroupConfig == [enabled |-> FALSE, freeze_automation |-> "", runtime_assembly |-> <<>>,
                  overlay |-> NoneAssembly]

\* Runtime.__init__: the attributes before initialize is called, for the
\* assembly and the brew event of the command line.
Constructed(assembly, brew_event) ==
    [pc |-> "start", error |-> "", assembly |-> assembly, group_config |-> NoGroupConfig,
     replace_vars |-> <<>>, assembly_basis_event |-> NoEvent, brew_event |-> brew_event,
     last_event |-> NoEvent, freeze_automation |-> "no", image_name_map |-> <<>>,
     name_in_bundle_map |-> <<>>, image_map |-> <<>>, rpm_map |-> <<>>,
     cloned |-> FALSE, initialized |-> FALSE, push |-> "none", pushed |-> {},
     again |-> 0]

DefaultOptions == [assembly |-> <<"t", "e", "s", "t">>, enable_assemblies |-> FALSE,
                   brew_event |-> NoEvent, stop |-> "full", mode |-> "both",
                   clone_distgits |-> TRUE]

EmptyStore == [group |-> [enabled |-> FALSE, freeze_automation |-> ""],
               releases |-> NoReleases, images |-> <<>>, components |-> <<>>]

\* initialize is not called.
InitIdle ==
    /\ opts = DefaultOptions
    /\ data = EmptyStore
    /\ rt = Constructed(DefaultOptions.assembly, DefaultOptions.brew_event)

\* git_clone is not called.
MirrorIdle == git_cache = [callers |-> <<>>, repo |-> <<>>, locks |-> {}]

\* No advisory id: None, or the 0 of the command line.
NoAdvisory == 0

NoOptions == [advisory_id |-> NoAdvisory, default_advisory_type |-> "None", builds |-> {},
              kind |-> "image", remove |-> FALSE, clean |-> FALSE,
              no_cdn_repos |-> FALSE, payload |-> FALSE, non_payload |-> FALSE,
              cdn_repos |-> FALSE]

\* find_builds_cli as it is entered.
Entered(args) ==
    [args |-> args, pc |-> "options", error |-> "", initialized |-> FALSE,
     advisory_id |-> args.advisory_id, unshipped_nvrps |-> {}, unshipped_builds |-> {},
     advisory_calls |-> <<>>]

\* find-builds is not run.
FindIdle == fb = Entered(NoOptions)

\* No tag has been gone through yet.
NoAnswers == [tag |-> "", el_version |-> 0, from_tag |-> <<>>, pinned_by_is |-> <<>>,
              group_deps |-> <<>>, component_builds |-> <<>>]

\* _fetch_builds_by_kind_rpm as it is entered.
SweepEntered(basis_event, dependencies, tags) ==
    [assembly_basis_event |-> basis_event, member_dependencies |-> dependencies,
     tags |-> tags, pc |-> "begin", assembly |-> "test", error |-> "",
     answers |-> NoAnswers, builds |-> <<>>, nvrps |-> {}]

\* The rpm sweep is not run.
SweepIdle == sweep = SweepEntered(NoEvent, FALSE, <<>>)

RestIdle == MirrorIdle /\ FindIdle /\ SweepIdle

\* Runtime.__init__, for the parts modelled after the first three.
LaterConstructed ==
    SharedConstructed /\ RegistryIdle /\ UpstreamIdle /\ BranchIdle /\ InitIdle /\ RestIdle

\* ------------------------------------------------------------------------
\* Source resolution
\* ------------------------------------------------------------------------
Resolvers == 1..NumResolvers

\* The metas of the run: two components that share the alias "a" (one pins
\* a commit-ish), a component with a git source, a component whose alias is
\* not configured, and one without source.
Metas ==
    { [distgit_key |-> "k1", source |-> "alias", alias |-> "a", commitish |-> FALSE],
      [distgit_key |-> "k2", source |-> "alias", alias |-> "a", commitish |-> TRUE],
      [distgit_key |-> "k3", source |-> "git", alias |-> "ns_k3_repo", commitish |-> FALSE],
      [distgit_key |-> "k4", source |-> "alias", alias |-> "b", commitish |-> FALSE],
      [distgit_key |-> "k5", source |-> "none", alias |-> "", commitish |-> FALSE] }

NoMeta == [distgit_key |-> "", source |-> "none", alias |-> "", commitish |-> FALSE]

\* The aliases of group_config.sources.
GroupSources == {"a"}

\* "--source alias path" on the command line: the names and the directories
\* (absolute, existing) that are registered.
CliNames == {"a", "k1"}

CliPaths == {<<"cli", "1">>, <<"cli", "2">>}

NoPath == <<"None">>

\* os.path.join(self.sources_dir, sub_path), sub_path being the alias with
\* the prefix 'global_' when the alias is an old style one.
SourceDir(old_style, alias) ==
    IF old_style THEN <<"sources", "global_", alias>> ELSE <<"sources", "", alias>>

\* The options of a run and the source directories an earlier run left.
RunOptions ==
    LET plain == [local |-> FALSE, upcycle |-> FALSE, public_upstreams |-> FALSE,
                  prevent_cloning |-> FALSE, dirs |-> {}]
    IN  { plain,
          [plain EXCEPT !.local = TRUE],
          [plain EXCEPT !.dirs = {SourceDir(TRUE, "a")}],
          [plain EXCEPT !.dirs = {SourceDir(TRUE, "a")}, !.upcycle = TRUE],
          [plain EXCEPT !.public_upstreams = TRUE],
          [plain EXCEPT !.prevent_cloning = TRUE] }

\* The key of get_named_semaphore for a directory name.
DirKey(path) == <<"_dir::">> \o path

RegistryKey == <<>>

\* Runtime.__init__: nothing is resolved, and named_semaphores holds the
\* lock of the registry under the empty key.
SourceBlank ==
    /\ src_phase = "registering"
    /\ source_resolutions = <<>>
    /\ named_semaphores = [k \in {RegistryKey} |-> 0]
    /\ sem_permits = [o \in {0} |-> 1]
    /\ r_pc = [t \in Resolvers |-> "idle"]
    /\ r_meta = [t \in Resolvers |-> NoMeta]
    /\ r_alias = [t \in Resolvers |-> ""]
    /\ r_dir = [t \in Resolvers |-> NoPath]
    /\ r_sem = [t \in Resolvers |-> 0]
    /\ r_result = [t \in Resolvers |-> [kind |-> "none", path |-> NoPath]]
    /\ r_found = [t \in Resolvers |-> "nothing"]
    /\ r_locked = [t \in Resolvers |-> FALSE]
    /\ r_clone = [t \in Resolvers |-> "no"]
    /\ r_ops = [t \in Resolvers |-> {}]

SourceConstructed ==
    /\ cfg_local = FALSE
    /\ cfg_upcycle = FALSE
    /\ cfg_public_upstreams = FALSE
    /\ cfg_prevent_cloning = FALSE
    /\ dirs = {}
    /\ source_args = <<>>
    /\ SourceBlank

\* ------------------------------------------------------------------------
\* Pooled koji sessions
\* ------------------------------------------------------------------------
Tasks == 1..NumTasks

\* "if len(self.session_pool) < 30"
PoolCap == 30

\* dict[key] = value on an insertion ordered dict kept as a list of items.
DictSet(d, key, value) ==
    IF \E i \in DOMAIN d : d[i].id = key
    THEN [i \in DOMAIN d |-> IF d[i].id = key THEN [id |-> key, session |-> value] ELSE d[i]]
    ELSE Append(d, [id |-> key, session |-> value])

DictKeys(d) == {d[i].id : i \in DOMAIN d}

\* The last item, left in the dict.
PeekItem(d) == [item |-> d[Len(d)], rest |-> d]

\* dict.popitem(): the item inserted last.
PopItem(d) == [item |-> d[Len(d)], rest |-> SubSeq(d, 1, Len(d) - 1)]

Top(t) == leases[t][Len(leases[t])]

\* No worker but the tasks.
NoCrowd == [held |-> {}, turn |-> 0, calling |-> FALSE]

\* Runtime.__init__: both pool dicts are empty and no task is in a context.
PoolConstructed ==
    /\ session_pool = <<>>
    /\ session_pool_available = <<>>
    /\ force_instance_caching = <<>>
    /\ leases = [t \in Tasks |-> <<>>]
    /\ pool_pc = [t \in Tasks |-> "idle"]
    /\ want_caching = [t \in Tasks |-> FALSE]
    /\ exit_kind = [t \in Tasks |-> "none"]
    /\ calls = 0
    /\ open_at_start = [t \in Tasks |-> 0]
    /\ ever_caching = {}
    /\ crowd = NoCrowd

\* The state of a new Runtime after task 1 has opened depth nested contexts
\* with the default caching and is in the body of the innermost: it built
\* the sessions of slots 0 .. depth-1 and none is available.
PoolNested(depth) ==
    /\ session_pool = [i \in 0..(depth - 1) |-> i + 1]
    /\ session_pool_available = <<>>
    /\ force_instance_caching = [o \in 1..depth |-> FALSE]
    /\ leases = [t \in Tasks |->
                    IF t = 1
                    THEN [k \in 1..depth |-> [id |-> k - 1, session |-> k, caching |-> FALSE]]
                    ELSE <<>>]
    /\ pool_pc = [t \in Tasks |-> IF t = 1 /\ depth > 0 THEN "body" ELSE "idle"]
    /\ want_caching = [t \in Tasks |-> FALSE]
    /\ exit_kind = [t \in Tasks |-> "none"]
    /\ calls = 0
    /\ open_at_start = [t \in Tasks |-> IF t = 1 THEN depth ELSE 0]
    /\ ever_caching = {}
    /\ crowd = NoCrowd

\* A task calls pooled_koji_client_session(caching), from outside any
\* context or from the body of one (a nested call).
call_pooled(t) ==
    /\ pool_pc[t] \in {"idle", "body"}
    /\ calls < MaxCalls
    /\ calls' = calls + 1
    /\ \E caching \in BOOLEAN :
         want_caching' = [want_caching EXCEPT ![t] = caching]
    /\ pool_pc' = [pool_pc EXCEPT ![t] = "acquire"]
    /\ UNCHANGED <<session_pool, session_pool_available, force_instance_caching,
                   leases, exit_kind, open_at_start, ever_caching>>
    /\ UNCHANGED crowd
    /\ UNCHANGED treeVars
    /\ UNCHANGED sourceVars
    /\ UNCHANGED laterVars

\* The pool may grow: "len(self.session_pool) < 30".
MayGrowInclusive(pool) == Cardinality(DOMAIN pool) <= PoolCap

MayGrow(pool) == Cardinality(DOMAIN pool) < PoolCap

\* The decision taken inside "with self.mutex".
DecisionGrowFirst(avail, pool) ==
    IF MayGrow(pool) THEN "build"
    ELSE IF Len(avail) = 0 THEN "wait" ELSE "lease"

\* A full pool makes the caller wait, whatever is available.
DecisionWaitAtCap(avail, pool) ==
    IF MayGrow(pool)
    THEN IF Len(avail) = 0 THEN "build" ELSE "lease"
    ELSE "wait"

Decision(avail, pool) ==
    IF Len(avail) = 0
    THEN IF MayGrow(pool) THEN "build" ELSE "wait"
    ELSE "lease"

\* The slots are numbered from 1.
NewSlotFromOne(pool) == Cardinality(DOMAIN pool) + 1

\* "session_id = len(self.session_pool)"
NewSlot(pool) == Cardinality(DOMAIN pool)

\* One pass of the "while True" loop, inside "with self.mutex".
acquire(t) ==
    /\ pool_pc[t] = "acquire"
    /\ IF Decision(session_pool_available, session_pool) # "lease"
       THEN IF Decision(session_pool_available, session_pool) = "build"
            THEN \* build a new session, register it and hand it out
                 LET new_session == Cardinality(DOMAIN force_instance_caching) + 1
                     session_id  == NewSlot(session_pool)
                 IN  /\ session_pool' =
                            [i \in DOMAIN session_pool \cup {session_id} |->
                                IF i = session_id THEN new_session ELSE session_pool[i]]
                     /\ \E flag \in BOOLEAN :
                            force_instance_caching' =
                                [o \in DOMAIN force_instance_caching \cup {new_session} |->
                                    IF o = new_session THEN flag
                                    ELSE force_instance_caching[o]]
                     /\ leases' = [leases EXCEPT ![t] =
                            Append(@, [id |-> session_id, session |-> new_session,
                                       caching |-> want_caching[t]])]
                     /\ pool_pc' = [pool_pc EXCEPT ![t] = "enter"]
                     /\ want_caching' = [want_caching EXCEPT ![t] = FALSE]
                     /\ UNCHANGED session_pool_available
            ELSE \* the caller is going to have to wait and try again
                 /\ pool_pc' = [pool_pc EXCEPT ![t] = "sleep"]
                 /\ UNCHANGED <<session_pool, session_pool_available,
                                force_instance_caching, leases, want_caching>>
       ELSE LET popped == PopItem(session_pool_available)
            IN  /\ session_pool_available' = popped.rest
                /\ leases' = [leases EXCEPT ![t] =
                       Append(@, [id |-> popped.item.id, session |-> popped.item.session,
                                  caching |-> want_caching[t]])]
                /\ pool_pc' = [pool_pc EXCEPT ![t] = "enter"]
                /\ want_caching' = [want_caching EXCEPT ![t] = FALSE]
                /\ UNCHANGED <<session_pool, force_instance_caching>>
    /\ UNCHANGED <<exit_kind, calls, open_at_start, ever_caching>>
    /\ UNCHANGED crowd
    /\ UNCHANGED treeVars
    /\ UNCHANGED sourceVars
    /\ UNCHANGED laterVars

\* Where a caller goes after "time.sleep(5)": the loop starts over, however
\* many contexts the caller has open.
AfterSleepGiveUp(depth) == IF depth = 0 THEN "idle" ELSE "body"

AfterSleep(depth) == "acquire"

\* "time.sleep(5)", then the loop starts over.
sleep_done(t) ==
    /\ pool_pc[t] = "sleep"
    /\ pool_pc' = [pool_pc EXCEPT ![t] = AfterSleep(Len(leases[t]))]
    /\ UNCHANGED <<session_pool, session_pool_available, force_instance_caching,
                   leases, want_caching, exit_kind, calls, open_at_start, ever_caching>>
    /\ UNCHANGED crowd
    /\ UNCHANGED treeVars
    /\ UNCHANGED sourceVars
    /\ UNCHANGED laterVars

\* "session.force_instance_caching = caching; yield session"
enter_body(t) ==
    /\ pool_pc[t] = "enter"
    /\ force_instance_caching' =
           [force_instance_caching EXCEPT ![Top(t).session] = Top(t).caching]
    /\ pool_pc' = [pool_pc EXCEPT ![t] = "body"]
    /\ ever_caching' = IF Top(t).caching THEN ever_caching \cup {Top(t).session}
                       ELSE ever_caching
    /\ UNCHANGED <<session_pool, session_pool_available, leases, want_caching, exit_kind,
                   calls, open_at_start>>
    /\ UNCHANGED crowd
    /\ UNCHANGED treeVars
    /\ UNCHANGED sourceVars
    /\ UNCHANGED laterVars

\* Where the body of the context goes when it ends with the given kind.
AfterBodySkipOnError(kind) == IF kind = "error" THEN "left" ELSE "finally"

AfterBody(kind) == "finally"

\* The body of the innermost context ends, normally or with an exception.
\* The contexts task 1 starts in stay open.
exit_body(t) ==
    /\ pool_pc[t] = "body"
    /\ Len(leases[t]) > open_at_start[t]
    /\ \E kind \in {"normal", "error"} :
         /\ exit_kind' = [exit_kind EXCEPT ![t] = kind]
         /\ IF AfterBody(kind) = "finally"
            THEN /\ pool_pc' = [pool_pc EXCEPT ![t] = "finally"]
                 /\ UNCHANGED leases
            ELSE \* the context is left without its finally block
                 /\ leases' = [leases EXCEPT ![t] = SubSeq(@, 1, Len(@) - 1)]
                 /\ pool_pc' = [pool_pc EXCEPT ![t] =
                        IF Len(leases[t]) = 1 THEN "idle" ELSE "body"]
    /\ UNCHANGED <<session_pool, session_pool_available, force_instance_caching,
                   want_caching, calls, open_at_start, ever_caching>>
    /\ UNCHANGED crowd
    /\ UNCHANGED treeVars
    /\ UNCHANGED sourceVars
    /\ UNCHANGED laterVars

\* The flag a session has when it is handed back.
FlagKept(flag) == flag

FlagOnRelease(flag) == FALSE

\* "finally: session.force_instance_caching = False"
reset_flag(t) ==
    /\ pool_pc[t] = "finally"
    /\ force_instance_caching' =
           [force_instance_caching EXCEPT ![Top(t).session] = FlagOnRelease(@)]
    /\ pool_pc' = [pool_pc EXCEPT ![t] = "put_back"]
    /\ UNCHANGED <<session_pool, session_pool_available, leases, want_caching, exit_kind,
                   calls, open_at_start, ever_caching>>
    /\ UNCHANGED crowd
    /\ UNCHANGED treeVars
    /\ UNCHANGED sourceVars
    /\ UNCHANGED laterVars

\* "with self.mutex: self.session_pool_available[session_id] = session"
put_back(t) ==
    /\ pool_pc[t] = "put_back"
    /\ session_pool_available' =
           DictSet(session_pool_available, Top(t).id, Top(t).session)
    /\ leases' = [leases EXCEPT ![t] = SubSeq(@, 1, Len(@) - 1)]
    /\ pool_pc' = [pool_pc EXCEPT ![t] = IF Len(leases[t]) = 1 THEN "idle" ELSE "body"]
    /\ exit_kind' = [exit_kind EXCEPT ![t] = "none"]
    /\ UNCHANGED <<session_pool, force_instance_caching, want_caching, calls,
                   open_at_start, ever_caching>>
    /\ UNCHANGED crowd
    /\ UNCHANGED treeVars
    /\ UNCHANGED sourceVars
    /\ UNCHANGED laterVars

\* The pool starts as constructed, or with task 1 already inside nested
\* contexts that leave room for fewer sessions than the calls of the run.
PoolInit ==
    /\ from_member = <<>>
    /\ TreeConstructed
    /\ \E depth \in {0, PoolCap + 1 - MaxCalls} : PoolNested(depth)
    /\ SourceConstructed
    /\ LaterConstructed

PoolNext ==
    \/ \E t \in Tasks : call_pooled(t)
    \/ \E t \in Tasks : acquire(t)
    \/ \E t \in Tasks : sleep_done(t)
    \/ \E t \in Tasks : enter_body(t)
    \/ \E t \in Tasks : exit_body(t)
    \/ \E t \in Tasks : reset_flag(t)
    \/ \E t \in Tasks : put_back(t)

SpecPool == PoolInit /\ [][PoolNext]_vars

\* The pool one session short of its cap: task 1 is inside nested contexts
\* that hold all the sessions built so far.
ExhaustedInit ==
    /\ from_member = <<>>
    /\ TreeConstructed
    /\ PoolNested(PoolCap - 1)
    /\ SourceConstructed
    /\ LaterConstructed

SpecExhausted == ExhaustedInit /\ [][PoolNext]_vars

\* The caller that is followed through a pool all of whose sessions are
\* leased to other workers.
Callers == {1}

Slots == 0..(PoolCap - 1)

\* The pool has grown to its cap and every session is leased: 30 workers are
\* in the bodies of their contexts, none of them a task of the model.
CrowdedInit ==
    /\ from_member = <<>>
    /\ TreeConstructed
    /\ session_pool = [i \in Slots |-> i + 1]
    /\ session_pool_available = <<>>
    /\ force_instance_caching = [o \in 1..PoolCap |-> FALSE]
    /\ leases = [t \in Tasks |-> <<>>]
    /\ pool_pc = [t \in Tasks |-> "idle"]
    /\ want_caching = [t \in Tasks |-> FALSE]
    /\ exit_kind = [t \in Tasks |-> "none"]
    /\ calls = 0
    /\ open_at_start = [t \in Tasks |-> 0]
    /\ ever_caching = {}
    /\ crowd = [held |-> Slots, turn |-> 0, calling |-> TRUE]
    /\ SourceConstructed
    /\ LaterConstructed

CrowdFrame ==
    /\ UNCHANGED <<session_pool, force_instance_caching, leases, pool_pc, want_caching,
                   exit_kind, calls, open_at_start, ever_caching>>
    /\ UNCHANGED treeVars
    /\ UNCHANGED sourceVars
    /\ UNCHANGED laterVars

\* The slot whose turn it is to be released: the workers of the crowd leave
\* their contexts in the order of the slot ids they hold, round and round.
NextUp(held, turn) ==
    IF \E id \in held : id >= turn
    THEN CHOOSE id \in held : id >= turn /\ \A other \in held : other >= turn => id <= other
    ELSE CHOOSE id \in held : \A other \in held : id <= other

\* A worker of the crowd leaves its context: the finally block puts its
\* session back (lines 798-804). The crowd's releases are followed one at a
\* time: the next one comes when no session is available.
crowd_put_back ==
    /\ crowd.held # {}
    /\ session_pool_available = <<>>
    /\ LET id == NextUp(crowd.held, crowd.turn)
       IN  /\ session_pool_available' =
                  DictSet(session_pool_available, id, session_pool[id])
           /\ crowd' = [crowd EXCEPT !.held = @ \ {id}, !.turn = (id + 1) % PoolCap]
    /\ CrowdFrame

\* A worker of the crowd calls pooled_koji_client_session and finds a
\* session available (line 790).
crowd_lease ==
    /\ crowd.calling
    /\ Decision(session_pool_available, session_pool) = "lease"
    /\ LET popped == PopItem(session_pool_available)
       IN  /\ session_pool_available' = popped.rest
           /\ crowd' = [crowd EXCEPT !.held = @ \cup {popped.item.id}]
    /\ CrowdFrame

\* From now on no worker of the crowd asks for a session.
crowd_stop ==
    /\ crowd.calling
    /\ crowd' = [crowd EXCEPT !.calling = FALSE]
    /\ UNCHANGED session_pool_available
    /\ CrowdFrame

\* The steps of a caller once it has called.
CallerStep(t) ==
    \/ acquire(t)
    \/ sleep_done(t)
    \/ enter_body(t)
    \/ exit_body(t)
    \/ reset_flag(t)
    \/ put_back(t)

CrowdedNext ==
    \/ \E t \in Callers : pool_pc[t] = "idle" /\ call_pooled(t) /\ ~want_caching'[t]
    \/ \E t \in Callers : acquire(t)
    \/ \E t \in Callers : sleep_done(t)
    \/ \E t \in Callers : enter_body(t)
    \/ \E t \in Callers : exit_body(t)
    \/ \E t \in Callers : reset_flag(t)
    \/ \E t \in Callers : put_back(t)
    \/ crowd_put_back
    \/ crowd_lease
    \/ crowd_stop

\* Every thread keeps running: a caller that can take a step takes one, the
\* body of a context ends, and the crowd goes on releasing its leases, each
\* of them within one round.
CrowdedFairness ==
    /\ \A t \in Callers : WF_vars(CallerStep(t))
    /\ WF_vars(crowd_put_back)

SpecCrowded == CrowdedInit /\ [][CrowdedNext]_vars /\ CrowdedFairness

\* ------------------------------------------------------------------------
\* Shared koji session: shared_koji_client_session
\* ------------------------------------------------------------------------
\* A task uses shared_koji_client_session(), from outside any context or
\* from the body of one.
shared_call(t) ==
    /\ sh_pc[t] \in {"idle", "body"}
    /\ sh_uses < MaxCalls
    /\ sh_uses' = sh_uses + 1
    /\ sh_pc' = [sh_pc EXCEPT ![t] = "lock"]
    /\ UNCHANGED <<koji_client_session, koji_lock, koji_built, sh_open, sh_yielded>>
    /\ UNCHANGED <<treeVars, poolVars, sourceVars, registryVars, upstreamVars, branchVars,
                   initVars, restVars>>

\* "with self.koji_lock": the RLock is free, or the task owns it already.
shared_lock(t) ==
    /\ sh_pc[t] = "lock"
    /\ koji_lock.owner \in {0, t}
    /\ koji_lock' = [owner |-> t, depth |-> koji_lock.depth + 1]
    /\ sh_pc' = [sh_pc EXCEPT ![t] = "locked"]
    /\ UNCHANGED <<koji_client_session, koji_built, sh_open, sh_uses, sh_yielded>>
    /\ UNCHANGED <<treeVars, poolVars, sourceVars, registryVars, upstreamVars, branchVars,
                   initVars, restVars>>

\* "if self._koji_client_session is None"
AlwaysBuild(session) == TRUE

NeedsBuild(session) == session = 0

\* Lines 747-752 up to the login: the session is built when there is none
\* (build_retrying_koji_client can raise), else the one there is is yielded.
shared_check(t) ==
    /\ sh_pc[t] = "locked"
    /\ IF NeedsBuild(koji_client_session)
       THEN \E built \in BOOLEAN :
              IF built
              THEN /\ koji_client_session' = koji_built + 1
                   /\ koji_built' = koji_built + 1
                   /\ sh_pc' = [sh_pc EXCEPT ![t] = "login"]
                   /\ UNCHANGED <<sh_open, sh_yielded>>
              ELSE /\ sh_pc' = [sh_pc EXCEPT ![t] = "raise"]
                   /\ UNCHANGED <<koji_client_session, koji_built, sh_open, sh_yielded>>
       ELSE /\ sh_open' = [sh_open EXCEPT ![t] = Append(@, koji_client_session)]
            /\ sh_yielded' = sh_yielded \cup {koji_client_session}
            /\ sh_pc' = [sh_pc EXCEPT ![t] = "body"]
            /\ UNCHANGED <<koji_client_session, koji_built>>
    /\ UNCHANGED <<koji_lock, sh_uses>>
    /\ UNCHANGED <<treeVars, poolVars, sourceVars, registryVars, upstreamVars, branchVars,
                   initVars, restVars>>

\* "if not self.disable_gssapi: ...gssapi_login()", which can raise, then
\* "yield self._koji_client_session".
shared_login(t) ==
    /\ sh_pc[t] = "login"
    /\ \E logged_in \in BOOLEAN :
         IF logged_in
         THEN /\ sh_open' = [sh_open EXCEPT ![t] = Append(@, koji_client_session)]
              /\ sh_yielded' = sh_yielded \cup {koji_client_session}
              /\ sh_pc' = [sh_pc EXCEPT ![t] = "body"]
         ELSE /\ sh_pc' = [sh_pc EXCEPT ![t] = "raise"]
              /\ UNCHANGED <<sh_open, sh_yielded>>
    /\ UNCHANGED <<koji_client_session, koji_lock, koji_built, sh_uses>>
    /\ UNCHANGED <<treeVars, poolVars, sourceVars, registryVars, upstreamVars, branchVars,
                   initVars, restVars>>

\* The RLock after one release by its owner.
Released(lock) ==
    IF lock.depth = 1 THEN [owner |-> 0, depth |-> 0]
    ELSE [owner |-> lock.owner, depth |-> lock.depth - 1]

\* An exception raised before the yield leaves "with self.koji_lock".
shared_raise(t) ==
    /\ sh_pc[t] = "raise"
    /\ koji_lock' = Released(koji_lock)
    /\ sh_pc' = [sh_pc EXCEPT ![t] = IF sh_open[t] = <<>> THEN "idle" ELSE "body"]
    /\ UNCHANGED <<koji_client_session, koji_built, sh_open, sh_uses, sh_yielded>>
    /\ UNCHANGED <<treeVars, poolVars, sourceVars, registryVars, upstreamVars, branchVars,
                   initVars, restVars>>

\* The body of the innermost context ends, normally or with an exception,
\* and "with self.koji_lock" is left.
shared_exit(t) ==
    /\ sh_pc[t] = "body"
    /\ sh_open[t] # <<>>
    /\ sh_open' = [sh_open EXCEPT ![t] = SubSeq(@, 1, Len(@) - 1)]
    /\ koji_lock' = Released(koji_lock)
    /\ sh_pc' = [sh_pc EXCEPT ![t] = IF Len(sh_open[t]) = 1 THEN "idle" ELSE "body"]
    /\ UNCHANGED <<koji_client_session, koji_built, sh_uses, sh_yielded>>
    /\ UNCHANGED <<treeVars, poolVars, sourceVars, registryVars, upstreamVars, branchVars,
                   initVars, restVars>>

SharedInit ==
    /\ from_member = <<>>
    /\ TreeConstructed
    /\ PoolConstructed
    /\ SourceConstructed
    /\ LaterConstructed

SharedNext ==
    \/ \E t \in Tasks : shared_call(t)
    \/ \E t \in Tasks : shared_lock(t)
    \/ \E t \in Tasks : shared_check(t)
    \/ \E t \in Tasks : shared_login(t)
    \/ \E t \in Tasks : shared_raise(t)
    \/ \E t \in Tasks : shared_exit(t)

SpecShared == SharedInit /\ [][SharedNext]_vars

\* C12: the shared session is constructed at most once and not before the
\* first use; every context is yielded that one session object, and the
\* task in the body of a context owns koji_lock.
SharedOnce ==
    /\ koji_built <= 1
    /\ (koji_client_session = 0) <=> (koji_built = 0)
    /\ sh_uses = 0 => koji_client_session = 0
    /\ Cardinality(sh_yielded) <= 1
    /\ \A t \in Tasks : \A k \in DOMAIN sh_open[t] :
          /\ sh_open[t][k] # 0
          /\ sh_open[t][k] = koji_client_session
          /\ koji_lock.owner = t
          /\ koji_lock.depth >= Len(sh_open[t])

\* A task is in the body of a nested use of the one session built, while
\* another task waits for the lock.
SharedOnceWitness ==
    \E t \in Tasks : \E u \in Tasks :
        /\ t # u
        /\ Len(sh_open[t]) = 2 /\ sh_pc[t] = "body"
        /\ sh_pc[u] = "lock"
        /\ koji_built = 1

\* ------------------------------------------------------------------------
\* Source resolution: initialize's registrations and resolve_source
\* ------------------------------------------------------------------------
SourceInit ==
    /\ \E o \in RunOptions :
         /\ cfg_local = o.local
         /\ cfg_upcycle = o.upcycle
         /\ cfg_public_upstreams = o.public_upstreams
         /\ cfg_prevent_cloning = o.prevent_cloning
         /\ dirs = o.dirs
    /\ source_args \in SeqsUpTo(CliNames \X CliPaths, MaxRegs)
    /\ SourceBlank
    /\ from_member = <<>>
    /\ TreeConstructed
    /\ PoolConstructed
    /\ LaterConstructed

\* self.source_resolutions[alias] = SourceResolution(path, ...)
Registered(res, alias, path) ==
    [a \in DOMAIN res \cup {alias} |-> IF a = alias THEN path ELSE res[a]]

\* register_source_alias can raise: with public_upstreams configured it
\* needs the origin url and the branch of the directory.
RegisterOutcomes == IF cfg_public_upstreams THEN {"ok", "fatal"} ELSE {"ok"}

\* initialize: "for r in self.source: self.register_source_alias(r[0], r[1])"
\* and the same for the entries of the --sources file; a registration that
\* raises ends initialize.
register_cli ==
    /\ src_phase = "registering"
    /\ source_args # <<>>
    /\ \E outcome \in RegisterOutcomes :
         IF outcome = "fatal"
         THEN /\ src_phase' = "fatal"
              /\ UNCHANGED source_resolutions
         ELSE /\ LET r == Head(source_args)
                 IN  source_resolutions' = Registered(source_resolutions, r[1], r[2])
              /\ UNCHANGED src_phase
    /\ source_args' = Tail(source_args)
    /\ UNCHANGED <<cfg_local, cfg_upcycle, cfg_public_upstreams, cfg_prevent_cloning,
                   dirs, named_semaphores, sem_permits, r_pc, r_meta,
                   r_alias, r_dir, r_sem, r_result, r_found, r_locked, r_clone>>
    /\ UNCHANGED r_ops
    /\ UNCHANGED <<treeVars, poolVars>>
    /\ UNCHANGED laterVars

\* The registration loop of initialize is over; metas resolve their sources.
registration_done ==
    /\ src_phase = "registering"
    /\ source_args = <<>>
    /\ src_phase' = "resolving"
    /\ UNCHANGED <<cfg_local, cfg_upcycle, cfg_public_upstreams, cfg_prevent_cloning,
                   source_args, source_resolutions, dirs, named_semaphores,
                   sem_permits, r_pc, r_meta, r_alias, r_dir, r_sem, r_result, r_found,
                   r_locked, r_clone>>
    /\ UNCHANGED r_ops
    /\ UNCHANGED <<treeVars, poolVars>>
    /\ UNCHANGED laterVars

\* "--source <distgit_key> path" overrides the source of the meta.
LocalOverride(m, res) == cfg_local /\ m.distgit_key \in DOMAIN res

\* The alias of the meta, as lines 1275-1289 compute it.
AliasOf(m, res) ==
    IF LocalOverride(m, res) THEN m.distgit_key ELSE m.alias

\* source_details is None: the alias is an old style one.
OldStyle(m, res) == LocalOverride(m, res) \/ m.source = "alias"

\* "if alias in self.source_resolutions" before the lock is taken.
NoFastPath(alias, res) == FALSE

FastPath(alias, res) == alias \in DOMAIN res

Returned(path) == [kind |-> "path", path |-> path]

ReturnedNone == [kind |-> "None", path |-> NoPath]

Raised(kind) == [kind |-> kind, path |-> NoPath]

\* What the message of the error raised at line 1359 is formatted with.
CloneErrorNames == {"alias", "source_dir"}

\* resolve_source(meta), lines 1265-1306: up to the named semaphore. The
\* callers are numbered in the order in which they call.
resolve_begin(t) ==
    /\ src_phase = "resolving"
    /\ r_pc[t] = "idle"
    /\ \A u \in Resolvers : u < t => r_pc[u] # "idle"
    /\ \E m \in Metas :
         LET alias == AliasOf(m, source_resolutions)
             old   == OldStyle(m, source_resolutions)
         IN  /\ r_meta' = [r_meta EXCEPT ![t] = m]
             /\ IF m.source = "none"
                THEN /\ r_pc' = [r_pc EXCEPT ![t] = "done"]
                     /\ r_result' = [r_result EXCEPT ![t] = ReturnedNone]
                     /\ UNCHANGED <<r_alias, r_dir, r_found>>
                ELSE /\ r_alias' = [r_alias EXCEPT ![t] = alias]
                     /\ r_found' = [r_found EXCEPT ![t] =
                            IF alias \in DOMAIN source_resolutions THEN "registered"
                            ELSE IF SourceDir(old, alias) \in dirs THEN "directory"
                            ELSE "nothing"]
                     /\ IF FastPath(alias, source_resolutions)
                        THEN /\ r_pc' = [r_pc EXCEPT ![t] = "done"]
                             /\ r_result' = [r_result EXCEPT ![t] =
                                                Returned(source_resolutions[alias])]
                             /\ UNCHANGED r_dir
                        ELSE IF old /\ alias \notin GroupSources
                        THEN /\ r_pc' = [r_pc EXCEPT ![t] = "done"]
                             /\ r_result' = [r_result EXCEPT ![t] = Raised("alias_not_found")]
                             /\ UNCHANGED r_dir
                        ELSE /\ r_pc' = [r_pc EXCEPT ![t] = "get_semaphore"]
                             /\ r_dir' = [r_dir EXCEPT ![t] = SourceDir(old, alias)]
                             /\ UNCHANGED r_result
    /\ UNCHANGED <<cfg_local, cfg_upcycle, cfg_public_upstreams, cfg_prevent_cloning,
                   src_phase, source_args, source_resolutions, dirs, named_semaphores,
                   sem_permits, r_sem, r_locked, r_clone>>
    /\ UNCHANGED r_ops
    /\ UNCHANGED <<treeVars, poolVars>>
    /\ UNCHANGED laterVars

\* "new_semaphore = Semaphore(count); self.named_semaphores[p] = new_semaphore"
NewSemaphore(sems, permits, key, count) ==
    LET new == Cardinality(DOMAIN permits)
    IN  [sems    |-> [k \in DOMAIN sems \cup {key} |-> IF k = key THEN new ELSE sems[k]],
         permits |-> [o \in DOMAIN permits \cup {new} |->
                         IF o = new THEN count ELSE permits[o]],
         sem     |-> new]

\* "if p in self.named_semaphores"
NeverStored(sems, key) == FALSE

Stored(sems, key) == key \in DOMAIN sems

\* get_named_semaphore(lock_name, is_dir, count), inside the registry lock:
\* the semaphore of the key, created with count permits at the first call.
SemaphoreAlwaysNew(sems, permits, key, count) == NewSemaphore(sems, permits, key, count)

get_named_semaphore(sems, permits, key, count) ==
    IF Stored(sems, key)
    THEN [sems |-> sems, permits |-> permits, sem |-> sems[key]]
    ELSE NewSemaphore(sems, permits, key, count)

\* "self.get_named_semaphore(source_dir, is_dir=True)", line 1308
resolve_get_semaphore(t) ==
    /\ r_pc[t] = "get_semaphore"
    /\ sem_permits[named_semaphores[RegistryKey]] > 0
    /\ LET got == get_named_semaphore(named_semaphores, sem_permits, DirKey(r_dir[t]), 1)
       IN  /\ named_semaphores' = got.sems
           /\ sem_permits' = got.permits
           /\ r_sem' = [r_sem EXCEPT ![t] = got.sem]
    /\ r_pc' = [r_pc EXCEPT ![t] = "lock"]
    /\ UNCHANGED <<cfg_local, cfg_upcycle, cfg_public_upstreams, cfg_prevent_cloning,
                   src_phase, source_args, source_resolutions, dirs, r_meta, r_alias,
                   r_dir, r_result, r_found, r_locked, r_clone>>
    /\ UNCHANGED r_ops
    /\ UNCHANGED <<treeVars, poolVars>>
    /\ UNCHANGED laterVars

\* "with <semaphore>:" the caller takes a permit, or waits for one.
resolve_lock(t) ==
    /\ r_pc[t] = "lock"
    /\ sem_permits[r_sem[t]] > 0
    /\ sem_permits' = [sem_permits EXCEPT ![r_sem[t]] = @ - 1]
    /\ r_locked' = [r_locked EXCEPT ![t] = TRUE]
    /\ r_pc' = [r_pc EXCEPT ![t] = "locked"]
    /\ UNCHANGED <<cfg_local, cfg_upcycle, cfg_public_upstreams, cfg_prevent_cloning,
                   src_phase, source_args, source_resolutions, dirs, named_semaphores,
                   r_meta, r_alias, r_dir, r_sem, r_result, r_found, r_clone>>
    /\ UNCHANGED r_ops
    /\ UNCHANGED <<treeVars, poolVars>>
    /\ UNCHANGED laterVars

\* The refresh is run whatever --upcycle says.
RefreshAlways(upcycle) == {"ok", "fetch_failed", "reset_failed"}

\* Lines 1321-1325: "if self.upcycle", "git fetch --all" and then "git reset
\* --hard @{upstream}", each of which may fail.
RefreshOutcomes(upcycle) ==
    IF upcycle THEN {"ok", "fetch_failed", "reset_failed"} ELSE {"none"}

\* The commands a refresh with that outcome has run.
RefreshRan(refresh) ==
    CASE refresh = "none" -> {}
      [] refresh = "fetch_failed" -> {"fetch"}
      [] OTHER -> {"fetch", "reset"}

\* Lines 1309-1329, inside the semaphore: the second look at the cache, the
\* directory left by an earlier run, the ban on cloning.
resolve_locked(t) ==
    /\ r_pc[t] = "locked"
    /\ IF r_alias[t] \in DOMAIN source_resolutions
       THEN /\ r_result' = [r_result EXCEPT ![t] = Returned(source_resolutions[r_alias[t]])]
            /\ r_pc' = [r_pc EXCEPT ![t] = "unlock"]
            /\ UNCHANGED <<source_resolutions, r_ops>>
       ELSE IF r_dir[t] \in dirs
       THEN \E outcome \in RegisterOutcomes : \E refresh \in RefreshOutcomes(cfg_upcycle) :
              IF outcome = "fatal"
              THEN /\ r_result' = [r_result EXCEPT ![t] = Raised("register_failed")]
                   /\ r_pc' = [r_pc EXCEPT ![t] = "unlock"]
                   /\ UNCHANGED <<source_resolutions, r_ops>>
              ELSE /\ source_resolutions' =
                          Registered(source_resolutions, r_alias[t], r_dir[t])
                   /\ r_pc' = [r_pc EXCEPT ![t] = "unlock"]
                   /\ r_ops' = [r_ops EXCEPT ![t] = @ \cup RefreshRan(refresh)]
                   /\ r_result' = [r_result EXCEPT ![t] =
                          IF refresh \in {"fetch_failed", "reset_failed"}
                          THEN Raised("refresh_failed") ELSE Returned(r_dir[t])]
       ELSE IF cfg_prevent_cloning
       THEN /\ r_result' = [r_result EXCEPT ![t] = Raised("cloning_prevented")]
            /\ r_pc' = [r_pc EXCEPT ![t] = "unlock"]
            /\ UNCHANGED <<source_resolutions, r_ops>>
       ELSE /\ r_pc' = [r_pc EXCEPT ![t] = "detect"]
            /\ UNCHANGED <<source_resolutions, r_result, r_ops>>
    /\ UNCHANGED <<cfg_local, cfg_upcycle, cfg_public_upstreams, cfg_prevent_cloning,
                   src_phase, source_args, dirs, named_semaphores, sem_permits, r_meta,
                   r_alias, r_dir, r_sem, r_found, r_locked, r_clone>>
    /\ UNCHANGED <<treeVars, poolVars>>
    /\ UNCHANGED laterVars

\* Line 1332: detect_remote_source_branch finds a branch or raises.
resolve_detect(t) ==
    /\ r_pc[t] = "detect"
    /\ r_ops' = [r_ops EXCEPT ![t] = @ \cup {"detect"}]
    /\ \E found \in BOOLEAN :
         IF found
         THEN /\ r_pc' = [r_pc EXCEPT ![t] = "clone"]
              /\ UNCHANGED r_result
         ELSE /\ r_pc' = [r_pc EXCEPT ![t] = "unlock"]
              /\ r_result' = [r_result EXCEPT ![t] = Raised("branch_not_found")]
    /\ UNCHANGED <<cfg_local, cfg_upcycle, cfg_public_upstreams, cfg_prevent_cloning,
                   src_phase, source_args, source_resolutions, dirs, named_semaphores,
                   sem_permits, r_meta, r_alias, r_dir, r_sem, r_found, r_locked,
                   r_clone>>
    /\ UNCHANGED <<treeVars, poolVars>>
    /\ UNCHANGED laterVars

\* Lines 1339-1359: the clone (with the checkout of a commit hash and the
\* fetch of the public upstream). On IOError the directory is removed and
\* DoozerFatalError is raised; shutil.rmtree raises itself when the clone
\* left no directory.
resolve_clone(t) ==
    /\ r_pc[t] = "clone"
    /\ \E outcome \in {"ok", "failed", "failed_no_dir"} :
         /\ r_clone' = [r_clone EXCEPT ![t] = IF outcome = "ok" THEN "ok" ELSE "failed"]
         /\ IF outcome = "ok"
            THEN /\ dirs' = dirs \cup {r_dir[t]}
                 /\ r_pc' = [r_pc EXCEPT ![t] = "register"]
                 /\ UNCHANGED r_result
            ELSE /\ dirs' = dirs \ {r_dir[t]}
                 /\ r_pc' = [r_pc EXCEPT ![t] = "unlock"]
                 /\ r_result' = [r_result EXCEPT ![t] =
                        IF outcome = "failed" THEN Raised("clone_failed")
                        ELSE Raised("rmtree_failed")]
    /\ UNCHANGED <<cfg_local, cfg_upcycle, cfg_public_upstreams, cfg_prevent_cloning,
                   src_phase, source_args, source_resolutions, named_semaphores,
                   sem_permits, r_meta, r_alias, r_dir, r_sem, r_found, r_locked>>
    /\ UNCHANGED r_ops
    /\ UNCHANGED <<treeVars, poolVars>>
    /\ UNCHANGED laterVars

\* Lines 1361-1372: the alias is registered, the commit-ish checked out.
resolve_register(t) ==
    /\ r_pc[t] = "register"
    /\ \E outcome \in RegisterOutcomes : \E checkout \in {"ok", "failed"} :
         IF outcome = "fatal"
         THEN /\ r_result' = [r_result EXCEPT ![t] = Raised("register_failed")]
              /\ UNCHANGED source_resolutions
         ELSE /\ source_resolutions' = Registered(source_resolutions, r_alias[t], r_dir[t])
              /\ r_result' = [r_result EXCEPT ![t] =
                     IF r_meta[t].commitish /\ checkout = "failed"
                     THEN Raised("commitish_failed") ELSE Returned(r_dir[t])]
    /\ r_pc' = [r_pc EXCEPT ![t] = "unlock"]
    /\ UNCHANGED <<cfg_local, cfg_upcycle, cfg_public_upstreams, cfg_prevent_cloning,
                   src_phase, source_args, dirs, named_semaphores, sem_permits, r_meta,
                   r_alias, r_dir, r_sem, r_found, r_locked, r_clone>>
    /\ UNCHANGED r_ops
    /\ UNCHANGED <<treeVars, poolVars>>
    /\ UNCHANGED laterVars

\* The permit goes back only when the with block is left by a return.
PermitKeptOnError(permits, sem, result) ==
    IF result.kind = "path" THEN [permits EXCEPT ![sem] = @ + 1] ELSE permits

\* Semaphore.__exit__, whatever left the with block.
PermitReturned(permits, sem, result) == [permits EXCEPT ![sem] = @ + 1]

\* The with block is left, by return or by exception: the permit goes back.
resolve_unlock(t) ==
    /\ r_pc[t] = "unlock"
    /\ sem_permits' = PermitReturned(sem_permits, r_sem[t], r_result[t])
    /\ r_pc' = [r_pc EXCEPT ![t] = "done"]
    /\ UNCHANGED <<cfg_local, cfg_upcycle, cfg_public_upstreams, cfg_prevent_cloning,
                   src_phase, source_args, source_resolutions, dirs, named_semaphores,
                   r_meta, r_alias, r_dir, r_sem, r_result, r_found, r_locked, r_clone>>
    /\ UNCHANGED r_ops
    /\ UNCHANGED <<treeVars, poolVars>>
    /\ UNCHANGED laterVars

SourceNext ==
    \/ register_cli
    \/ registration_done
    \/ \E t \in Resolvers : resolve_begin(t)
    \/ \E t \in Resolvers : resolve_get_semaphore(t)
    \/ \E t \in Resolvers : resolve_lock(t)
    \/ \E t \in Resolvers : resolve_locked(t)
    \/ \E t \in Resolvers : resolve_detect(t)
    \/ \E t \in Resolvers : resolve_clone(t)
    \/ \E t \in Resolvers : resolve_register(t)
    \/ \E t \in Resolvers : resolve_unlock(t)

SpecSource == SourceInit /\ [][SourceNext]_vars

\* ------------------------------------------------------------------------
\* Named semaphores: get_named_semaphore
\* ------------------------------------------------------------------------
\* A text is the sequence of its pieces: "/" and the names between slashes.
\* The lock names of the run: the empty string, spellings of /tmp/x (the
\* working directory is /tmp), and the text of a directory key.
LockNames ==
    { <<>>,
      <<"/", "tmp", "/", "x">>,
      <<"/", "tmp", "/", "x", "/">>,
      <<"/", "tmp", "/", "x", "/", "..", "/", "x">>,
      <<"x">>,
      <<"_dir::", "/", "tmp", "/", "x">> }

Counts == {1, 2}

Cwd == <<"tmp">>

IsPiece(c) == c \notin {"/", "."}

\* pathlib.Path(text): the parts of the path; empty parts (a doubled or a
\* trailing slash) and "." parts are dropped, ".." parts are kept.
PathParts(text) == SelectSeq(text, IsPiece)

IsAbsolute(text) == text # <<>> /\ text[1] = "/"

RECURSIVE JoinParts(_)
JoinParts(parts) ==
    IF parts = <<>> THEN <<>> ELSE <<"/", Head(parts)>> \o JoinParts(Tail(parts))

\* The text as it is, without normalization.
RawDir(text) == text

\* str(pathlib.Path(str(lock_name)).absolute())
NormalizedDir(text) ==
    LET parts == IF IsAbsolute(text) THEN PathParts(text) ELSE Cwd \o PathParts(text)
    IN  IF parts = <<>> THEN <<"/">> ELSE JoinParts(parts)

\* The key p of lines 225-228.
SemaphoreKey(lock_name, is_dir) ==
    IF is_dir THEN <<"_dir::">> \o NormalizedDir(lock_name) ELSE lock_name

KeyOf(t) == SemaphoreKey(reg_args[t].lock_name, reg_args[t].is_dir)

\* A thread calls get_named_semaphore(lock_name, is_dir, count). The callers
\* are numbered in the order in which they call.
registry_call(t) ==
    /\ reg_pc[t] = "idle"
    /\ \A u \in Tasks : u < t => reg_pc[u] # "idle"
    /\ \E name \in LockNames : \E dir \in BOOLEAN : \E count \in Counts :
         reg_args' = [reg_args EXCEPT ![t] =
                         [lock_name |-> name, is_dir |-> dir, count |-> count]]
    /\ reg_pc' = [reg_pc EXCEPT ![t] = "guard"]
    /\ UNCHANGED reg_got
    /\ UNCHANGED <<treeVars, poolVars, sourceVars, sharedVars, upstreamVars, branchVars,
                   initVars, restVars>>

\* The guard can be taken: it is a Lock, held by one thread at a time.
GuardIgnored(permits) == TRUE

GuardFree(permits) == permits > 0

\* "with self.named_semaphores['']:" the lock of the registry is taken.
registry_guard(t) ==
    /\ reg_pc[t] = "guard"
    /\ GuardFree(sem_permits[named_semaphores[RegistryKey]])
    /\ sem_permits' = [sem_permits EXCEPT ![named_semaphores[RegistryKey]] = @ - 1]
    /\ reg_pc' = [reg_pc EXCEPT ![t] = "check"]
    /\ UNCHANGED <<reg_args, reg_got>>
    /\ UNCHANGED <<cfg_local, cfg_upcycle, cfg_public_upstreams, cfg_prevent_cloning,
                   src_phase, source_args, source_resolutions, dirs, named_semaphores,
                   r_pc, r_meta, r_alias, r_dir, r_sem, r_result, r_found, r_locked,
                   r_clone, r_ops>>
    /\ UNCHANGED <<treeVars, poolVars, sharedVars, upstreamVars, branchVars,
                   initVars, restVars>>

\* "if p in self.named_semaphores: return self.named_semaphores[p]"
registry_check(t) ==
    /\ reg_pc[t] = "check"
    /\ IF Stored(named_semaphores, KeyOf(t))
       THEN /\ reg_got' = [reg_got EXCEPT ![t] =
                              [sem |-> named_semaphores[KeyOf(t)], created |-> FALSE]]
            /\ reg_pc' = [reg_pc EXCEPT ![t] = "leave"]
       ELSE /\ reg_pc' = [reg_pc EXCEPT ![t] = "create"]
            /\ UNCHANGED reg_got
    /\ UNCHANGED reg_args
    /\ UNCHANGED <<treeVars, poolVars, sourceVars, sharedVars, upstreamVars, branchVars,
                   initVars, restVars>>

\* "else: new_semaphore = Semaphore(count); ...; return new_semaphore"
registry_create(t) ==
    /\ reg_pc[t] = "create"
    /\ LET made == NewSemaphore(named_semaphores, sem_permits, KeyOf(t), reg_args[t].count)
       IN  /\ named_semaphores' = made.sems
           /\ sem_permits' = made.permits
           /\ reg_got' = [reg_got EXCEPT ![t] = [sem |-> made.sem, created |-> TRUE]]
    /\ reg_pc' = [reg_pc EXCEPT ![t] = "leave"]
    /\ UNCHANGED reg_args
    /\ UNCHANGED <<cfg_local, cfg_upcycle, cfg_public_upstreams, cfg_prevent_cloning,
                   src_phase, source_args, source_resolutions, dirs,
                   r_pc, r_meta, r_alias, r_dir, r_sem, r_result, r_found, r_locked,
                   r_clone, r_ops>>
    /\ UNCHANGED <<treeVars, poolVars, sharedVars, upstreamVars, branchVars,
                   initVars, restVars>>

\* The with block is left by the return: the lock of the registry is free.
registry_leave(t) ==
    /\ reg_pc[t] = "leave"
    /\ sem_permits' = [sem_permits EXCEPT ![named_semaphores[RegistryKey]] = @ + 1]
    /\ reg_pc' = [reg_pc EXCEPT ![t] = "done"]
    /\ UNCHANGED <<reg_args, reg_got>>
    /\ UNCHANGED <<cfg_local, cfg_upcycle, cfg_public_upstreams, cfg_prevent_cloning,
                   src_phase, source_args, source_resolutions, dirs, named_semaphores,
                   r_pc, r_meta, r_alias, r_dir, r_sem, r_result, r_found, r_locked,
                   r_clone, r_ops>>
    /\ UNCHANGED <<treeVars, poolVars, sharedVars, upstreamVars, branchVars,
                   initVars, restVars>>

RegistryInit ==
    /\ from_member = <<>>
    /\ TreeConstructed
    /\ PoolConstructed
    /\ SourceConstructed
    /\ LaterConstructed

RegistryNext ==
    \/ \E t \in Tasks : registry_call(t)
    \/ \E t \in Tasks : registry_guard(t)
    \/ \E t \in Tasks : registry_check(t)
    \/ \E t \in Tasks : registry_create(t)
    \/ \E t \in Tasks : registry_leave(t)

SpecRegistry == RegistryInit /\ [][RegistryNext]_vars

\* ------------------------------------------------------------------------
\* Public upstream translation: get_public_upstream
\* ------------------------------------------------------------------------
\* A remote is written "git@host:org/repo" or "https://host/org/repo", with
\* or without ".git" at its end; segs are the parts host, org, repo.
SshUrl(segs, dot_git) == [form |-> "ssh", segs |-> segs, dot_git |-> dot_git]

HttpsUrl(segs) == [form |-> "https", segs |-> segs, dot_git |-> FALSE]

\* artcommonlib.util.convert_remote_git_to_https: the https form of the
\* remote, "https://" followed by the parts joined by "/", without ".git".
\* The result is kept as the sequence of the parts.
convert_remote_git_to_https(url) == url.segs

\* The number of characters of a part.
SegLen(seg) ==
    CASE seg = "github.com" -> 10
      [] seg = "gitlab.com" -> 10
      [] seg = "org" -> 3
      [] seg = "orgx" -> 4
      [] seg = "priv" -> 4
      [] seg = "x.io" -> 4
      [] seg = "example.com" -> 11
      [] seg = "pub" -> 3
      [] seg = "public-mirrors" -> 14
      [] seg = "openshift" -> 9

RECURSIVE SumLen(_)
SumLen(segs) == IF segs = <<>> THEN 0 ELSE SegLen(Head(segs)) + SumLen(Tail(segs))

\* len() of an https form: "https://", the parts, and the slashes between.
HttpsLen(segs) == 8 + SumLen(segs) + (Len(segs) - 1)

\* The characters of a part.
SegChars(seg) ==
    CASE seg = "github.com" -> <<"g", "i", "t", "h", "u", "b", ".", "c", "o", "m">>
      [] seg = "gitlab.com" -> <<"g", "i", "t", "l", "a", "b", ".", "c", "o", "m">>
      [] seg = "org" -> <<"o", "r", "g">>
      [] seg = "orgx" -> <<"o", "r", "g", "x">>
      [] seg = "priv" -> <<"p", "r", "i", "v">>
      [] seg = "x.io" -> <<"x", ".", "i", "o">>
      [] seg = "example.com" -> <<"e", "x", "a", "m", "p", "l", "e", ".", "c", "o", "m">>
      [] seg = "pub" -> <<"p", "u", "b">>
      [] seg = "public-mirrors" ->
            <<"p", "u", "b", "l", "i", "c", "-", "m", "i", "r", "r", "o", "r", "s">>
      [] seg = "openshift" -> <<"o", "p", "e", "n", "s", "h", "i", "f", "t">>

RECURSIVE JoinChars(_)
JoinChars(segs) ==
    IF segs = <<>> THEN <<>>
    ELSE IF Len(segs) = 1 THEN SegChars(segs[1])
    ELSE SegChars(segs[1]) \o <<"/">> \o JoinChars(Tail(segs))

\* The text of an https form: "https://" and the parts joined by "/".
HttpsText(segs) == <<"h", "t", "t", "p", "s", ":", "/", "/">> \o JoinChars(segs)

\* remote_https.startswith(https_priv_prefix)
PrefixIsLeadingText(remote, priv) == IsPrefix(HttpsText(priv), HttpsText(remote))

\* "remote_https.startswith(f'{https_priv_prefix}/') or remote_https == https_priv_prefix"
PrefixMatches(remote, priv) ==
    \/ IsPrefix(HttpsText(priv) \o <<"/">>, HttpsText(remote))
    \/ HttpsText(remote) = HttpsText(priv)

\* "if not target_priv_prefix or len(https_priv_prefix) > len(target_pub_prefix)"
Contender(target, priv) ==
    target.rule = 0 \/ HttpsLen(priv) > HttpsLen(target.pub)

\* The loop over group_config.public_upstreams, from rule i on; target is
\* the contender kept so far (rule 0: none).
RECURSIVE UpstreamLoop(_, _, _, _)
UpstreamLoop(rules, i, remote, target) ==
    IF i > Len(rules) THEN target
    ELSE LET priv == convert_remote_git_to_https(rules[i].private)
             pub  == convert_remote_git_to_https(rules[i].public)
         IN  IF PrefixMatches(remote, priv) /\ Contender(target, priv)
             THEN UpstreamLoop(rules, i + 1, remote,
                               [rule |-> i, priv |-> priv, pub |-> pub,
                                branch |-> rules[i].public_branch])
             ELSE UpstreamLoop(rules, i + 1, remote, target)

\* The whole url after the public prefix.
SubstitutedWhole(pub, priv, remote) == pub \o remote

\* f'{target_pub_prefix}{remote_https[len(target_priv_prefix):]}'
Substituted(pub, priv, remote) == pub \o SubSeq(remote, Len(priv) + 1, Len(remote))

\* get_public_upstream(remote_git): the url, the branch ("" for None), and
\* for the record the rule that was applied (0: none).
get_public_upstream(remote_git, rules) ==
    LET remote_https == convert_remote_git_to_https(remote_git)
        target == UpstreamLoop(rules, 1, remote_https,
                               [rule |-> 0, priv |-> <<>>, pub |-> <<>>, branch |-> ""])
    IN  IF rules # <<>> /\ target.rule # 0
        THEN [rule |-> target.rule,
              url |-> Substituted(target.pub, target.priv, remote_https),
              branch |-> target.branch]
        ELSE [rule |-> 0, url |-> remote_https, branch |-> ""]

\* The private and the public prefixes of the rules, and their branches.
PrivatePrefixes ==
    { SshUrl(<<"github.com", "org">>, FALSE),
      HttpsUrl(<<"github.com", "org", "priv">>),
      HttpsUrl(<<"github.com", "orgx">>) }

PublicPrefixes ==
    { HttpsUrl(<<"x.io">>),
      HttpsUrl(<<"example.com", "pub">>),
      HttpsUrl(<<"example.com", "public-mirrors", "openshift">>) }

UpstreamRules ==
    [private : PrivatePrefixes, public : PublicPrefixes, public_branch : {"", "public"}]

\* The remotes that are translated.
Remotes ==
    { SshUrl(<<"github.com", "org", "priv">>, TRUE),
      HttpsUrl(<<"github.com", "org", "priv">>),
      HttpsUrl(<<"github.com", "org">>),
      SshUrl(<<"github.com", "orgx", "priv">>, FALSE),
      HttpsUrl(<<"gitlab.com", "org", "priv">>) }

UpstreamInit ==
    /\ from_member = <<>>
    /\ TreeConstructed
    /\ PoolConstructed
    /\ SourceConstructed
    /\ SharedConstructed
    /\ RegistryIdle
    /\ BranchIdle
    /\ InitIdle
    /\ RestIdle
    /\ pu_in \in [url : Remotes, rules : SeqsUpTo(UpstreamRules, MaxRules)]
    /\ pu_out = NoUpstream

\* self.get_public_upstream(url)
public_upstream_call ==
    /\ pu_out = NoUpstream
    /\ pu_out' = get_public_upstream(pu_in.url, pu_in.rules)
    /\ UNCHANGED pu_in
    /\ UNCHANGED <<treeVars, poolVars, sourceVars, sharedVars, registryVars, branchVars,
                   initVars, restVars>>

UpstreamNext == public_upstream_call

SpecUpstream == UpstreamInit /\ [][UpstreamNext]_vars

\* The rules whose private prefix matches the remote.
MatchingRules ==
    {i \in DOMAIN pu_in.rules :
        IsPrefix(pu_in.rules[i].private.segs, pu_in.url.segs)}

\* C17 as stated: when two rules match the url and the private prefix of
\* one extends that of the other, the rule applied is not the one with the
\* shorter private prefix.
LongestPrivateWins ==
    pu_out # NoUpstream =>
        \A i, j \in MatchingRules :
            (Len(pu_in.rules[i].private.segs) < Len(pu_in.rules[j].private.segs))
                => pu_out.rule # i

\* C18: when a rule matches, the result is the https form of a matching
\* rule's public prefix followed by what the https form of the url has after
\* that rule's private prefix, with that rule's public branch; when no rule
\* matches or there are no rules, it is the https form of the url and no
\* branch; "git@github.com:org/priv.git" with the rule private
\* "git@github.com:org", public "https://example.com/pub" gives
\* "https://example.com/pub/priv".
TranslatedUrl ==
    pu_out # NoUpstream =>
        /\ IF MatchingRules = {}
           THEN pu_out = [rule |-> 0, url |-> pu_in.url.segs, branch |-> ""]
           ELSE \E i \in MatchingRules :
                  LET r == pu_in.rules[i]
                  IN  /\ pu_out.rule = i
                      /\ pu_out.branch = r.public_branch
                      /\ IsPrefix(r.public.segs, pu_out.url)
                      /\ Len(pu_out.url) =
                            Len(r.public.segs) + Len(pu_in.url.segs) - Len(r.private.segs)
                      /\ \A k \in 1..(Len(pu_in.url.segs) - Len(r.private.segs)) :
                            pu_out.url[Len(r.public.segs) + k] =
                                pu_in.url.segs[Len(r.private.segs) + k]
        /\ (/\ pu_in.url = SshUrl(<<"github.com", "org", "priv">>, TRUE)
            /\ Len(pu_in.rules) = 1
            /\ pu_in.rules[1].private = SshUrl(<<"github.com", "org">>, FALSE)
            /\ pu_in.rules[1].public = HttpsUrl(<<"example.com", "pub">>))
              => pu_out.url = <<"example.com", "pub", "priv">>

\* The example of the claim has been translated.
TranslatedUrlWitness ==
    /\ pu_in.url = SshUrl(<<"github.com", "org", "priv">>, TRUE)
    /\ Len(pu_in.rules) = 1
    /\ pu_in.rules[1].private = SshUrl(<<"github.com", "org">>, FALSE)
    /\ pu_in.rules[1].public = HttpsUrl(<<"example.com", "pub">>)
    /\ pu_out.url = <<"example.com", "pub", "priv">>
    /\ pu_out.branch = pu_in.rules[1].public_branch

\* The private prefix of the rule is a leading part of the text of the url
\* and ends inside one of its path segments.
MerelyLeadingText(url, private) ==
    /\ IsPrefix(HttpsText(private.segs), HttpsText(url.segs))
    /\ ~IsPrefix(private.segs, url.segs)

\* C34: the rule that get_public_upstream applies has a private prefix
\* whose https form is the https form of the url or is followed in it by
\* "/", that is, its parts are the leading parts of the url; a rule whose
\* private prefix is merely a leading substring of the url, as
\* "https://github.com/org" is of "https://github.com/orgx/priv", is never
\* applied, and when there is no other rule the url is returned as it is.
FullSegmentMatch ==
    pu_out # NoUpstream =>
        /\ pu_out.rule # 0 =>
              LET remote_https == HttpsText(convert_remote_git_to_https(pu_in.url))
                  priv == HttpsText(convert_remote_git_to_https(pu_in.rules[pu_out.rule].private))
              IN  /\ IsPrefix(priv, remote_https)
                  /\ remote_https = priv \/ remote_https[Len(priv) + 1] = "/"
                  /\ IsPrefix(pu_in.rules[pu_out.rule].private.segs, pu_in.url.segs)
        /\ \A i \in DOMAIN pu_in.rules :
              MerelyLeadingText(pu_in.url, pu_in.rules[i].private) => pu_out.rule # i
        /\ (\A i \in DOMAIN pu_in.rules :
                MerelyLeadingText(pu_in.url, pu_in.rules[i].private))
              => pu_out = [rule |-> 0, url |-> pu_in.url.segs, branch |-> ""]

\* "git@github.com:orgx/priv" met the one rule for "git@github.com:org" and
\* was returned in its https form, untranslated.
FullSegmentMatchWitness ==
    /\ pu_in.url = SshUrl(<<"github.com", "orgx", "priv">>, FALSE)
    /\ Len(pu_in.rules) = 1
    /\ pu_in.rules[1].private = SshUrl(<<"github.com", "org">>, FALSE)
    /\ pu_out = [rule |-> 0, url |-> <<"github.com", "orgx", "priv">>, branch |-> ""]

\* ------------------------------------------------------------------------
\* Branch detection: detect_remote_source_branch
\* ------------------------------------------------------------------------
\* A branch name is the sequence of its characters.
HexDigits == {"0", "1", "2", "3", "4", "5", "6", "7", "8", "9",
              "a", "b", "c", "d", "e", "f", "A", "B", "C", "D", "E", "F"}

\* int(branch, 16) does not raise: hexadecimal digits, after "0x" or not.
ParsesAsHex(branch) ==
    LET digits == IF Len(branch) >= 2 /\ branch[1] = "0" /\ branch[2] \in {"x", "X"}
                  THEN SubSeq(branch, 3, Len(branch)) ELSE branch
    IN  digits # <<>> /\ \A i \in DOMAIN digits : digits[i] \in HexDigits

\* A hash needs more than 7 characters.
HashLongerThan7(branch) == Len(branch) > 7 /\ ParsesAsHex(branch)

\* is_branch_commit_hash(branch)
is_branch_commit_hash(branch) == Len(branch) >= 7 /\ ParsesAsHex(branch)

\* A failed query counts as one that printed nothing.
RemoteErrorAsEmpty(branch, answer) ==
    IF answer = "found" THEN <<"ref">>
    ELSE IF is_branch_commit_hash(branch) THEN branch
    ELSE NoBranch

\* _get_remote_branch_ref(git_url, branch), given what "git ls-remote"
\* does: the ref of the branch, the branch itself when the remote has no
\* such branch and the name is a hash, else None.
get_remote_branch_ref(branch, answer) ==
    IF answer = "error" THEN NoBranch
    ELSE IF answer = "found" THEN <<"ref">>
    ELSE IF is_branch_commit_hash(branch) THEN branch
    ELSE NoBranch

\* The fallback is kept whatever use_source_fallback_branch says.
CandidatesKeepFallback(b) == [branch |-> b.target, fallback |-> b.fallback]

\* Lines 1379-1386: the branch to look for and its fallback.
Candidates(b) ==
    IF b.mode = "always" /\ b.fallback # NoBranch
    THEN [branch |-> b.fallback, fallback |-> NoBranch]
    ELSE IF b.mode = "never"
    THEN [branch |-> b.target, fallback |-> NoBranch]
    ELSE [branch |-> b.target, fallback |-> b.fallback]

Detected(branch, ref, queries, answers) ==
    [kind |-> "branch", branch |-> branch, ref |-> ref, queries |-> queries,
     answers |-> answers, named |-> {}]

\* raise DoozerFatalError(...): named holds the branches the message is
\* formatted with.
Fatal(queries, answers, named) ==
    [kind |-> "fatal", branch |-> NoBranch, ref |-> NoBranch, queries |-> queries,
     answers |-> answers, named |-> named]

\* Lines 1396-1409: the target and then the fallback.
detect_target(c, answers) ==
    IF is_branch_commit_hash(c.branch)
    THEN Detected(c.branch, c.branch, <<>>, answers)
    ELSE LET result == get_remote_branch_ref(c.branch, answers[c.branch])
         IN  IF result # NoBranch
             THEN Detected(c.branch, result, <<c.branch>>, answers)
             ELSE IF c.fallback = NoBranch
             THEN Fatal(<<c.branch>>, answers, {c.branch})
             ELSE LET second == get_remote_branch_ref(c.fallback, answers[c.fallback])
                  IN  IF second # NoBranch
                      THEN Detected(c.fallback, second, <<c.branch, c.fallback>>, answers)
                      ELSE Fatal(<<c.branch, c.fallback>>, answers, {c.branch})

\* A stage branch the remote does not have gives way to the target.
StageMissingFallsBack(stage_branch, c, answers) ==
    LET rest == detect_target(c, answers)
    IN  [rest EXCEPT !.queries = <<stage_branch>> \o @]

\* Line 1394: no ref for the stage branch.
StageMissing(stage_branch, c, answers) ==
    Fatal(<<stage_branch>>, answers, {stage_branch})

\* detect_remote_source_branch(source_details), the remote answering each
\* query with answers[branch].
detect_remote_source_branch(b, answers) ==
    LET c            == Candidates(b)
        stage_branch == IF b.stage THEN b.stage_branch ELSE NoBranch
    IN  IF stage_branch # NoBranch
        THEN LET result == get_remote_branch_ref(stage_branch, answers[stage_branch])
             IN  IF result # NoBranch
                 THEN Detected(stage_branch, result, <<stage_branch>>, answers)
                 ELSE StageMissing(stage_branch, c, answers)
        ELSE detect_target(c, answers)

\* The branch names of the run: two names that are no hash, a hash of 7
\* hexadecimal characters, 6 hexadecimal characters, a name int() parses.
Targets ==
    { <<"m", "a", "i", "n">>,
      <<"r", "e", "l", "-", "4", "1", "7">>,
      <<"a", "b", "c", "1", "2", "3", "4">>,
      <<"a", "b", "c", "1", "2", "3">>,
      <<"0", "x", "1", "2", "3", "4", "5">> }

Fallbacks == {NoBranch, <<"m", "a", "s", "t", "e", "r">>, <<"d", "e", "a", "d", "b", "e", "e", "f">>}

StageBranches == {NoBranch, <<"s", "t", "a", "g", "e">>, <<"f", "e", "e", "d", "f", "a", "c", "e">>}

Answers == {"found", "missing", "error"}

BranchInit ==
    /\ from_member = <<>>
    /\ TreeConstructed
    /\ PoolConstructed
    /\ SourceConstructed
    /\ SharedConstructed
    /\ RegistryIdle
    /\ UpstreamIdle
    /\ InitIdle
    /\ RestIdle
    /\ db_in \in [target : Targets, fallback : Fallbacks, stage_branch : StageBranches,
                  mode : {"", "always", "never"}, stage : BOOLEAN]
    /\ db_out = NoDetection

\* self.detect_remote_source_branch(source_details)
detect_call ==
    /\ db_out = NoDetection
    /\ \E answers \in [{db_in.target, db_in.fallback, db_in.stage_branch} \ {NoBranch}
                          -> Answers] :
         db_out' = detect_remote_source_branch(db_in, answers)
    /\ UNCHANGED db_in
    /\ UNCHANGED <<treeVars, poolVars, sourceVars, sharedVars, registryVars, upstreamVars,
                   initVars, restVars>>

BranchNext == detect_call

SpecBranch == BranchInit /\ [][BranchNext]_vars

\* The name is made of 7 or more hexadecimal characters.
SevenHex(branch) ==
    Len(branch) >= 7 /\ \A i \in DOMAIN branch : branch[i] \in HexDigits

StageOverride == db_in.stage /\ db_in.stage_branch # NoBranch

FallbackForced == db_in.mode = "always" /\ db_in.fallback # NoBranch

\* C19 as stated: a target of 7 or more hexadecimal characters is returned
\* as the branch, and no query is sent for it.
HashTargetAccepted ==
    (db_out # NoDetection /\ SevenHex(db_in.target)) =>
        /\ db_out.kind = "branch"
        /\ db_out.branch = db_in.target
        /\ db_in.target \notin Range(db_out.queries)

\* C19, amended: with no stage override and the fallback not forced by
\* use_source_fallback_branch "always", a target of 7 or more hexadecimal
\* characters is returned as the branch and as its own ref and no query at
\* all is sent; under a stage override or a forced fallback the stage or the
\* fallback branch is looked for and the target is not.
HashTargetUnlessOverridden ==
    (db_out # NoDetection /\ SevenHex(db_in.target)) =>
        /\ (~StageOverride /\ ~FallbackForced) =>
              /\ db_out.kind = "branch"
              /\ db_out.branch = db_in.target
              /\ db_out.ref = db_in.target
              /\ db_out.queries = <<>>
        /\ StageOverride => db_out.queries = <<db_in.stage_branch>>
        /\ (~StageOverride /\ FallbackForced) =>
              (db_out.queries = <<db_in.fallback>> \/ db_out.branch = db_in.fallback)

\* A hash target was accepted without query, a fallback being there.
HashTargetUnlessOverriddenWitness ==
    /\ db_out.kind = "branch"
    /\ SevenHex(db_in.target)
    /\ db_out.branch = db_in.target
    /\ db_out.queries = <<>>
    /\ db_in.fallback # NoBranch
    /\ db_in.stage_branch # NoBranch

\* The call is one of those C20 is about.
PlainTarget == ~StageOverride /\ ~is_branch_commit_hash(db_in.target)

FallbackUsable == db_in.fallback # NoBranch /\ db_in.mode # "never"

\* C20 as stated: the target if the remote has it; else, a fallback being
\* configured and not disabled, the fallback, queried after the target, if
\* the remote has it; a fatal error in every other case.
TargetThenFallback ==
    (db_out # NoDetection /\ PlainTarget) =>
        IF db_out.answers[db_in.target] = "found"
        THEN db_out.kind = "branch" /\ db_out.branch = db_in.target
        ELSE IF FallbackUsable /\ db_out.answers[db_in.fallback] = "found"
        THEN /\ db_out.kind = "branch" /\ db_out.branch = db_in.fallback
             /\ db_out.queries = <<db_in.target, db_in.fallback>>
        ELSE db_out.kind = "fatal"

\* The query for the branch finds it, or the name is a hash and the remote
\* answers that it has no such branch.
Seen(branch, answers) ==
    answers[branch] = "found"
        \/ (answers[branch] = "missing" /\ is_branch_commit_hash(branch))

\* C20, amended: with no stage override and a target that is not a commit
\* hash: when use_source_fallback_branch is "always" and a fallback is
\* configured, only the fallback is looked for; otherwise the target is
\* queried and returned if the query finds it, and if not and a fallback is
\* configured and not disabled ("never"), the fallback is queried next. A
\* fallback is returned if its query finds it, or if its name is a commit
\* hash and the remote has no such branch; a query that fails counts as not
\* found. In every other case a fatal error is raised.
TargetThenFallbackUnlessForced ==
    (db_out # NoDetection /\ PlainTarget) =>
        IF FallbackForced
        THEN IF is_branch_commit_hash(db_in.fallback)
             THEN db_out = Detected(db_in.fallback, db_in.fallback, <<>>, db_out.answers)
             ELSE /\ db_out.queries = <<db_in.fallback>>
                  /\ IF db_out.answers[db_in.fallback] = "found"
                     THEN db_out.kind = "branch" /\ db_out.branch = db_in.fallback
                     ELSE db_out.kind = "fatal"
        ELSE IF db_out.answers[db_in.target] = "found"
        THEN /\ db_out.kind = "branch" /\ db_out.branch = db_in.target
             /\ db_out.queries = <<db_in.target>>
        ELSE IF FallbackUsable
        THEN /\ db_out.queries = <<db_in.target, db_in.fallback>>
             /\ IF Seen(db_in.fallback, db_out.answers)
                THEN db_out.kind = "branch" /\ db_out.branch = db_in.fallback
                ELSE db_out.kind = "fatal"
        ELSE db_out.kind = "fatal" /\ db_out.queries = <<db_in.target>>

\* The target was not found and the fallback, queried after it, was.
TargetThenFallbackUnlessForcedWitness ==
    /\ PlainTarget /\ ~FallbackForced
    /\ db_out.kind = "branch"
    /\ db_out.branch = db_in.fallback
    /\ db_out.queries = <<db_in.target, db_in.fallback>>
    /\ db_out.answers[db_in.target] = "missing"
    /\ db_out.answers[db_in.fallback] = "found"

\* C21: when neither the target nor the fallback is on the remote, the fatal
\* error names both of them.
FatalNamesBoth ==
    (/\ db_out.kind = "fatal"
     /\ ~StageOverride /\ ~FallbackForced /\ FallbackUsable
     /\ db_out.queries = <<db_in.target, db_in.fallback>>) =>
        db_out.named = {db_in.target, db_in.fallback}

\* C22 as stated: under a stage override the stage branch is returned only if
\* the remote has it, and a fatal error raised if not.
StageOnlyIfOnRemote ==
    (db_out # NoDetection /\ StageOverride) =>
        IF db_out.answers[db_in.stage_branch] = "found"
        THEN db_out.kind = "branch" /\ db_out.branch = db_in.stage_branch
        ELSE db_out.kind = "fatal"

\* C22, amended: under a stage override only the stage branch is queried; it
\* is returned if the query finds it, or if its name is a commit hash and
\* the remote has no such branch, and a fatal error naming it is raised
\* otherwise; the target and the fallback are neither queried nor returned.
StageOrFatal ==
    (db_out # NoDetection /\ StageOverride) =>
        /\ db_out.queries = <<db_in.stage_branch>>
        /\ IF Seen(db_in.stage_branch, db_out.answers)
           THEN db_out.kind = "branch" /\ db_out.branch = db_in.stage_branch
           ELSE db_out = Fatal(<<db_in.stage_branch>>, db_out.answers, {db_in.stage_branch})

\* The stage branch was missing, target and fallback were there, and the
\* call failed.
StageOrFatalWitness ==
    /\ StageOverride
    /\ db_out.kind = "fatal"
    /\ db_out.answers[db_in.stage_branch] = "missing"
    /\ db_out.answers[db_in.target] = "found"
    /\ db_in.fallback # NoBranch
    /\ db_out.answers[db_in.fallback] = "found"

\* The branch whose query failed, if the call made such a query.
FailedQueries == {i \in DOMAIN db_out.queries : db_out.answers[db_out.queries[i]] = "error"}

\* C31: a query that fails yields no ref and no error of its own: the branch
\* it asked for is not returned, not even a hash-named one; after a failed
\* query for the target the fallback, if there is one to use, is queried
\* next, and in every other case the call ends in the fatal error of
\* detect_remote_source_branch.
QueryFailureIsNotFound ==
    db_out # NoDetection =>
        \A i \in FailedQueries :
            LET branch == db_out.queries[i]
                c      == Candidates(db_in)
            IN  /\ get_remote_branch_ref(branch, "error") = NoBranch
                /\ ~(db_out.kind = "branch" /\ db_out.branch = branch)
                /\ IF ~StageOverride /\ branch = c.branch /\ c.fallback # NoBranch
                   THEN /\ i = 1 /\ Len(db_out.queries) = 2
                        /\ db_out.queries[2] = c.fallback
                        /\ db_out.kind = "branch" => db_out.branch = c.fallback
                   ELSE /\ i = Len(db_out.queries)
                        /\ db_out.kind = "fatal"
                        /\ db_out.named # {}

\* The query for the target failed and the fallback, queried next, was
\* returned.
QueryFailureIsNotFoundWitness ==
    /\ PlainTarget /\ ~FallbackForced
    /\ db_out.kind = "branch"
    /\ db_out.branch = db_in.fallback
    /\ db_out.queries = <<db_in.target, db_in.fallback>>
    /\ db_out.answers[db_in.target] = "error"

\* ------------------------------------------------------------------------
\* Initialization: Runtime.initialize, push_distgits
\* ------------------------------------------------------------------------
\* An assembly name is the sequence of its characters.
WordChars ==
    {"a", "b", "c", "d", "e", "f", "g", "h", "i", "j", "k", "l", "m", "n", "o", "p",
     "q", "r", "s", "t", "u", "v", "w", "x", "y", "z", "_",
     "0", "1", "2", "3", "4", "5", "6", "7", "8", "9"}

\* Python's truth value of self.assembly.
Truthy(assembly) == assembly \notin {NoneAssembly, <<>>}

\* The name may end with a dot.
NameCheckedAtStart(assembly) ==
    /\ assembly # <<>>
    /\ \A i \in DOMAIN assembly : assembly[i] \in WordChars \cup {"."}
    /\ assembly[1] # "."

\* Line 433: re.fullmatch(r'[\w.]+', assembly) matches and neither the first
\* nor the last character is a dot.
NameAccepted(assembly) ==
    /\ assembly # <<>>
    /\ \A i \in DOMAIN assembly : assembly[i] \in WordChars \cup {"."}
    /\ assembly[1] # "."
    /\ assembly[Len(assembly)] # "."

\* assembly_group_config(releases_config, assembly, group_config): the group
\* overlay of the assembly, if the releases config defines one, over the
\* group config.
assembly_group_config(releases, assembly, config) ==
    IF Truthy(assembly) /\ releases.defines = assembly /\ releases.group
    THEN [config EXCEPT !.overlay = assembly]
    ELSE config

\* assembly_basis_event(releases_config, assembly)
assembly_basis_event(releases, assembly) ==
    IF Truthy(assembly) /\ releases.defines = assembly THEN releases.basis ELSE NoEvent

\* _get_replace_vars(group_config)['runtime_assembly']
get_replace_vars(assembly) == IF Truthy(assembly) THEN assembly ELSE <<>>

\* get_group_config(): group.yml, its template keys replaced, under the
\* overlay of self.assembly.
get_group_config(group, releases, assembly) ==
    assembly_group_config(releases, assembly,
        [enabled |-> group.enabled, freeze_automation |-> group.freeze_automation,
         runtime_assembly |-> get_replace_vars(assembly), overlay |-> NoneAssembly])

\* initialize has returned or raised.
AtRest == rt.pc \in {"returned", "failed", "done"}

Raise(error) == rt' = [rt EXCEPT !.pc = "failed", !.error = error]

\* initialize(...), lines 346-391: no_group and group_only return before
\* any configuration is read.
init_call ==
    /\ rt.pc = "start"
    /\ rt' = [rt EXCEPT !.pc = IF opts.stop \in {"no_group", "group_only"}
                                THEN "returned" ELSE "group_config"]
    /\ UNCHANGED <<opts, data>>
    /\ UNCHANGED <<treeVars, poolVars, sourceVars, sharedVars, registryVars, upstreamVars,
                   branchVars, restVars>>

\* Lines 425-428: self.group_config = self.get_group_config()
init_group_config ==
    /\ rt.pc = "group_config"
    /\ rt' = [rt EXCEPT !.pc = "assembly",
                        !.group_config = get_group_config(data.group, data.releases,
                                                          rt.assembly)]
    /\ UNCHANGED <<opts, data>>
    /\ UNCHANGED <<treeVars, poolVars, sourceVars, sharedVars, registryVars, upstreamVars,
                   branchVars, restVars>>

\* Lines 431-443: the assembly name is checked, or the assembly dropped.
init_assembly ==
    /\ rt.pc = "assembly"
    /\ IF rt.group_config.enabled \/ opts.enable_assemblies
       THEN IF ~NameAccepted(rt.assembly)
            THEN Raise("AssemblyName")
            ELSE rt' = [rt EXCEPT !.pc = IF opts.stop = "config_only"
                                         THEN "returned" ELSE "events",
                                  !.replace_vars = get_replace_vars(rt.assembly)]
       ELSE rt' = [rt EXCEPT !.pc = IF opts.stop = "config_only"
                                    THEN "returned" ELSE "events",
                             !.assembly = NoneAssembly,
                             !.replace_vars = get_replace_vars(NoneAssembly)]
    /\ UNCHANGED <<opts, data>>
    /\ UNCHANGED <<treeVars, poolVars, sourceVars, sharedVars, registryVars, upstreamVars,
                   branchVars, restVars>>

\* The ids koji_session.getLastEvent() may answer with.
LastEvents == {7}

\* The basis event silently takes the place of the event supplied.
BasisOverrides(basis, brew_event) == FALSE

\* Lines 453-454: a basis event and a brew event at the same time.
EventsClash(basis, brew_event) == basis # NoEvent /\ brew_event # NoEvent

\* Lines 452-470: the basis event of the assembly or the event of the
\* command line, else the last event of the build system.
init_events ==
    /\ rt.pc = "events"
    /\ LET basis == assembly_basis_event(data.releases, rt.assembly)
       IN  IF EventsClash(basis, rt.brew_event)
           THEN rt' = [rt EXCEPT !.pc = "failed", !.error = "BasisEvent",
                                 !.assembly_basis_event = basis]
           ELSE LET event == IF basis # NoEvent THEN basis ELSE rt.brew_event
                IN  IF event # NoEvent
                    THEN rt' = [rt EXCEPT !.pc = "settings",
                                          !.assembly_basis_event = basis,
                                          !.brew_event = event]
                    ELSE \E last \in LastEvents :
                           rt' = [rt EXCEPT !.pc = "settings",
                                            !.assembly_basis_event = basis,
                                            !.last_event = last,
                                            !.brew_event = last]
    /\ UNCHANGED <<opts, data>>
    /\ UNCHANGED <<treeVars, poolVars, sourceVars, sharedVars, registryVars, upstreamVars,
                   branchVars, restVars>>

\* Line 524: self.freeze_automation = group_config.freeze_automation or 'no'
init_settings ==
    /\ rt.pc = "settings"
    /\ rt' = [rt EXCEPT !.pc = "names",
                        !.freeze_automation =
                            IF rt.group_config.freeze_automation = ""
                            THEN "no" ELSE rt.group_config.freeze_automation]
    /\ UNCHANGED <<opts, data>>
    /\ UNCHANGED <<treeVars, poolVars, sourceVars, sharedVars, registryVars, upstreamVars,
                   branchVars, restVars>>

\* _register_name_in_bundle(name_in_bundle, distgit_key), lines 583-586
register_name_in_bundle(name_in_bundle, key, maps) ==
    IF maps.error # "" THEN maps
    ELSE IF name_in_bundle \in DOMAIN maps.name_in_bundle_map
    THEN [maps EXCEPT !.error = "NameInBundle"]
    ELSE [maps EXCEPT !.name_in_bundle_map = (name_in_bundle :> key) @@ @]

\* The short name without and with its "ose-" prefix.
WithoutOse(short_name) ==
    IF short_name # <<>> /\ Head(short_name) = "ose-" THEN Tail(short_name) ELSE short_name

WithOse(short_name) == <<"ose-">> \o WithoutOse(short_name)

\* Lines 588-600 for one image record.
register_names(img, maps) ==
    LET name   == <<img.org, "/">> \o img.short_name
        named  == [maps EXCEPT !.image_name_map =
                       (img.short_name :> img.key) @@ ((name :> img.key) @@ @)]
    IN  IF img.name_in_bundle # <<>>
        THEN register_name_in_bundle(img.name_in_bundle, img.key, named)
        ELSE register_name_in_bundle(WithOse(img.short_name), img.key,
                 register_name_in_bundle(WithoutOse(img.short_name), img.key, named))

RECURSIVE register_all(_, _)
\* for img in image_name_data.values(): ..., up to the first error
register_all(records, maps) ==
    IF records = <<>> \/ maps.error # "" THEN maps
    ELSE register_all(Tail(records), register_names(Head(records), maps))

\* Lines 578-600: the name-lookup maps.
init_names ==
    /\ rt.pc = "names"
    /\ LET maps == register_all(data.images,
                       [image_name_map |-> rt.image_name_map,
                        name_in_bundle_map |-> rt.name_in_bundle_map, error |-> ""])
       IN  rt' = [rt EXCEPT !.pc = IF maps.error # "" THEN "failed" ELSE "load",
                            !.error = maps.error,
                            !.image_name_map = maps.image_name_map,
                            !.name_in_bundle_map = maps.name_in_bundle_map]
    /\ UNCHANGED <<opts, data>>
    /\ UNCHANGED <<treeVars, poolVars, sourceVars, sharedVars, registryVars, upstreamVars,
                   branchVars, restVars>>

OfKind(components, kind) == SelectSeq(components, LAMBDA c : c.kind = kind)

\* Lines 620-649: the metadata of the mode, in the order of the data.
init_load ==
    /\ rt.pc = "load"
    /\ rt' = [rt EXCEPT !.pc = "collide",
                        !.image_map = IF opts.mode \in {"images", "both"}
                                      THEN OfKind(data.components, "image") ELSE <<>>,
                        !.rpm_map   = IF opts.mode \in {"rpms", "both"}
                                      THEN OfKind(data.components, "rpm") ELSE <<>>]
    /\ UNCHANGED <<opts, data>>
    /\ UNCHANGED <<treeVars, poolVars, sourceVars, sharedVars, registryVars, upstreamVars,
                   branchVars, restVars>>

\* '{}/{}/#{}'.format(meta.namespace, meta.name, meta.branch())
collide_key(meta) == meta.namespace \o <<"/">> \o meta.name \o <<"/#", meta.branch>>

\* Only images are compared.
CollidesAmongImages(metas) ==
    \E j \in 1..Len(metas) : \E i \in 1..(j - 1) :
        /\ metas[i].kind = "image" /\ metas[j].kind = "image"
        /\ collide_key(metas[i]) = collide_key(metas[j])

\* Lines 653-660: some metadata has the key of one before it.
Collides(metas) ==
    \E j \in 1..Len(metas) : \E i \in 1..(j - 1) :
        collide_key(metas[i]) = collide_key(metas[j])

\* Lines 651-660: no two metadata of the same distgit and branch.
init_collide ==
    /\ rt.pc = "collide"
    /\ IF Collides(rt.rpm_map \o rt.image_map)
       THEN Raise("Duplicate")
       ELSE rt' = [rt EXCEPT !.pc = "finish"]
    /\ UNCHANGED <<opts, data>>
    /\ UNCHANGED <<treeVars, poolVars, sourceVars, sharedVars, registryVars, upstreamVars,
                   branchVars, restVars>>

\* Lines 662-665: clone_distgits(), which may raise, and self.initialized.
init_finish ==
    /\ rt.pc = "finish"
    /\ IF opts.clone_distgits
       THEN \/ rt' = [rt EXCEPT !.pc = "done", !.cloned = TRUE, !.initialized = TRUE]
            \/ Raise("Clone")
       ELSE rt' = [rt EXCEPT !.pc = "done", !.initialized = TRUE]
    /\ UNCHANGED <<opts, data>>
    /\ UNCHANGED <<treeVars, poolVars, sourceVars, sharedVars, registryVars, upstreamVars,
                   branchVars, restVars>>

\* The further calls of initialize a command makes.
MaxInits == 1

\* The flag is not looked at.
NeverReturnsAtOnce(initialized) == FALSE

\* Lines 308-309: if self.initialized: return
ReturnsAtOnce(initialized) == initialized

\* initialize is called once more, with the arguments of the call before,
\* after that call has returned.
init_again ==
    /\ rt.pc \in {"returned", "done"}
    /\ rt.again < MaxInits
    /\ IF ReturnsAtOnce(rt.initialized)
       THEN rt' = [rt EXCEPT !.again = @ + 1]
       ELSE rt' = [rt EXCEPT !.again = @ + 1, !.pc = "start"]
    /\ UNCHANGED <<opts, data>>
    /\ UNCHANGED <<treeVars, poolVars, sourceVars, sharedVars, registryVars, upstreamVars,
                   branchVars, restVars>>

\* Every value of the flag forbids mutation but 'no'.
FrozenUnlessNo(freeze_automation) == freeze_automation # "no"

\* assert_mutation_is_permitted() raises.
Frozen(freeze_automation) == freeze_automation = "yes"

\* all_metas(), by distgit key
all_metas == {rt.image_map[i].key : i \in DOMAIN rt.image_map}
                 \cup {rt.rpm_map[i].key : i \in DOMAIN rt.rpm_map}

\* push_distgits(), called by a command once its initialize is over.
push_distgits ==
    /\ AtRest
    /\ rt.push = "none"
    /\ IF Frozen(rt.freeze_automation)
       THEN rt' = [rt EXCEPT !.push = "raised"]
       ELSE rt' = [rt EXCEPT !.push = "pushed", !.pushed = all_metas]
    /\ UNCHANGED <<opts, data>>
    /\ UNCHANGED <<treeVars, poolVars, sourceVars, sharedVars, registryVars, upstreamVars,
                   branchVars, restVars>>

\* The most records of the image name data and the most components of a run.
MaxRecords == 2

AssemblyNames ==
    { <<"4", ".", "1", "4">>,
      <<"m", "y", "_", "r", "e", "l", "e", "a", "s", "e">>,
      <<".", "f", "o", "o">>,
      <<"f", "o", "o", ".">>,
      <<"f", "o", "o", "/", "b", "a", "r">>,
      <<"t", "e", "s", "t">>,
      <<>> }

SuppliedEvents == {NoEvent, 3}

\* releases.yml: none, or one assembly with a group overlay or a basis event.
ReleasesConfigs ==
    { NoReleases,
      [defines |-> <<"4", ".", "1", "4">>, group |-> TRUE, basis |-> 5],
      [defines |-> <<"t", "e", "s", "t">>, group |-> TRUE, basis |-> NoEvent],
      [defines |-> <<"m", "y", "_", "r", "e", "l", "e", "a", "s", "e">>, group |-> FALSE,
       basis |-> 5] }

FreezeFlags == {"", "no", "scheduled", "yes"}

\* The image records of the data store: name is org/short_name.
ImageRecords ==
    { [key |-> "a", org |-> "openshift", short_name |-> <<"ose-", "foo">>,
       name_in_bundle |-> <<>>],
      [key |-> "b", org |-> "openshift", short_name |-> <<"foo">>, name_in_bundle |-> <<>>],
      [key |-> "c", org |-> "other", short_name |-> <<"ose-", "foo">>,
       name_in_bundle |-> <<"bar">>],
      [key |-> "d", org |-> "openshift", short_name |-> <<"ose-", "foo">>,
       name_in_bundle |-> <<"baz">>] }

\* The components of the data store, with what their metadata answers.
Components ==
    { [key |-> "a", kind |-> "image", namespace |-> <<"containers">>, name |-> <<"foo">>,
       branch |-> "rhaos-4.14"],
      [key |-> "b", kind |-> "image", namespace |-> <<"containers">>, name |-> <<"foo">>,
       branch |-> "rhaos-4.14"],
      [key |-> "c", kind |-> "rpm", namespace |-> <<"rpms">>, name |-> <<"foo">>,
       branch |-> "rhaos-4.14"],
      [key |-> "d", kind |-> "rpm", namespace |-> <<"containers">>, name |-> <<"foo">>,
       branch |-> "rhaos-4.14"] }

\* The lists of up to n records of S, no key twice.
Listings(S, n) ==
    {l \in SeqsUpTo(S, n) : \A i, j \in DOMAIN l : l[i].key = l[j].key => i = j}

\* The runs that vary the assembly and the events, over an empty group.
AssemblyRuns ==
    /\ opts \in [assembly : AssemblyNames, enable_assemblies : BOOLEAN,
                 brew_event : SuppliedEvents,
                 stop : {"no_group", "group_only", "config_only", "full"},
                 mode : {"both"}, clone_distgits : {FALSE}]
    /\ data \in [group : [enabled : BOOLEAN, freeze_automation : {""}],
                 releases : ReleasesConfigs, images : {<<>>}, components : {<<>>}]

\* The runs that vary the group's images, rpms and freeze flag, under the
\* default assembly.
LoadRuns ==
    /\ opts \in [assembly : {DefaultOptions.assembly}, enable_assemblies : {FALSE},
                 brew_event : {NoEvent}, stop : {"config_only", "full"},
                 mode : {"images", "rpms", "both"}, clone_distgits : {TRUE}]
    /\ data \in [group : [enabled : {FALSE}, freeze_automation : FreezeFlags],
                 releases : {NoReleases}, images : Listings(ImageRecords, MaxRecords),
                 components : Listings(Components, MaxRecords)]

InitializeInit ==
    /\ from_member = <<>>
    /\ TreeConstructed
    /\ PoolConstructed
    /\ SourceConstructed
    /\ SharedConstructed
    /\ RegistryIdle
    /\ UpstreamIdle
    /\ BranchIdle
    /\ RestIdle
    /\ AssemblyRuns \/ LoadRuns
    /\ rt = Constructed(opts.assembly, opts.brew_event)

InitializeNext ==
    \/ init_call
    \/ init_group_config
    \/ init_assembly
    \/ init_events
    \/ init_settings
    \/ init_names
    \/ init_load
    \/ init_collide
    \/ init_finish
    \/ init_again
    \/ push_distgits

SpecInitialize == InitializeInit /\ [][InitializeNext]_vars

\* Assembly mode: the group config, overlay included, enables it or the
\* command line forces it.
AssembliesEnabled == rt.group_config.enabled \/ opts.enable_assemblies

\* initialize is past lines 431-438.
PastAssembly ==
    /\ rt.pc \notin {"start", "group_config", "assembly"}
    /\ opts.stop \notin {"no_group", "group_only"}

\* initialize is past lines 452-470.
PastEvents ==
    \/ rt.pc \in {"settings", "names", "load", "collide", "finish", "done"}
    \/ rt.pc = "failed" /\ rt.error # "AssemblyName"

\* initialize is past line 524.
PastSettings ==
    \/ rt.pc \in {"names", "load", "collide", "finish", "done"}
    \/ rt.pc = "failed" /\ rt.error \in {"NameInBundle", "Duplicate", "Clone"}

\* Word characters and dots only, at least one, no dot first or last.
WellFormed(assembly) ==
    /\ assembly # <<>>
    /\ Range(assembly) \subseteq (WordChars \cup {"."})
    /\ Head(assembly) # "."
    /\ assembly[Len(assembly)] # "."

\* C23: with assemblies enabled, initialize rejects the assembly name with
\* an error exactly when it is not made of word characters and dots only or
\* starts or ends with a dot; "4.14" and "my_release" pass, ".foo", "foo."
\* and "foo/bar" are rejected.
AssemblyNameValidated ==
    (PastAssembly /\ AssembliesEnabled) =>
        /\ (rt.pc = "failed" /\ rt.error = "AssemblyName") <=> ~WellFormed(opts.assembly)
        /\ opts.assembly \in { <<"4", ".", "1", "4">>,
                               <<"m", "y", "_", "r", "e", "l", "e", "a", "s", "e">> }
              => rt.error # "AssemblyName" /\ rt.assembly = opts.assembly
        /\ opts.assembly \in { <<".", "f", "o", "o">>, <<"f", "o", "o", ".">>,
                               <<"f", "o", "o", "/", "b", "a", "r">> }
              => rt.pc = "failed" /\ rt.error = "AssemblyName"

\* "foo." was rejected.
AssemblyNameValidatedWitness ==
    /\ AssembliesEnabled
    /\ opts.assembly = <<"f", "o", "o", ".">>
    /\ rt.pc = "failed"
    /\ rt.error = "AssemblyName"

\* C24: with assemblies neither enabled by the group config nor forced by
\* the command line, the assembly is dropped and the group config is the
\* one obtained with no assembly: no overlay, no template variable derived
\* from the assembly.
DiscardedAssemblyLeavesNoTrace ==
    (PastAssembly /\ ~AssembliesEnabled) =>
        /\ rt.assembly = NoneAssembly
        /\ rt.group_config.overlay = NoneAssembly
        /\ rt.group_config.runtime_assembly = <<>>

\* The basis event of the assembly in force.
BasisInForce ==
    IF rt.assembly # NoneAssembly /\ data.releases.defines = rt.assembly
    THEN data.releases.basis ELSE NoEvent

\* C25: initialize fails exactly when the assembly has a basis event and a
\* brew event was supplied too; otherwise brew_event is, from there to the
\* end of initialize, the basis event if there is one, else the supplied
\* event, else the last event of the build system.
EventsExclusive ==
    PastEvents =>
        /\ (rt.pc = "failed" /\ rt.error = "BasisEvent")
              <=> (BasisInForce # NoEvent /\ opts.brew_event # NoEvent)
        /\ rt.error # "BasisEvent" =>
              rt.brew_event = IF BasisInForce # NoEvent THEN BasisInForce
                              ELSE IF opts.brew_event # NoEvent THEN opts.brew_event
                              ELSE rt.last_event
        /\ rt.error # "BasisEvent" => rt.brew_event # NoEvent

\* A full initialize ended with the basis event as brew_event.
EventsExclusiveWitness ==
    /\ rt.pc = "done"
    /\ rt.initialized
    /\ BasisInForce # NoEvent
    /\ rt.brew_event = BasisInForce

\* The metadata initialize loaded.
Loaded == rt.rpm_map \o rt.image_map

\* Two of the metadata loaded have the same namespace, name and branch.
SameTriple ==
    \E i, j \in DOMAIN Loaded :
        /\ i # j
        /\ Loaded[i].namespace = Loaded[j].namespace
        /\ Loaded[i].name = Loaded[j].name
        /\ Loaded[i].branch = Loaded[j].branch

\* C26: two loaded components of the same (namespace, name, branch) make
\* initialize raise, in whatever order they were loaded: no distgit is
\* cloned and initialized stays False.
DuplicateFatal ==
    SameTriple =>
        /\ ~rt.cloned /\ ~rt.initialized
        /\ rt.pc \in {"collide", "failed"}
        /\ rt.pc = "failed" => rt.error = "Duplicate"

\* An rpm and an image, loaded image first, had the same triple.
DuplicateFatalWitness ==
    /\ rt.pc = "failed" /\ rt.error = "Duplicate"
    /\ Len(rt.rpm_map) = 1 /\ Len(rt.image_map) = 1
    /\ data.components[1].kind = "image"

\* The aliases of an image record in image_name_map and in
\* name_in_bundle_map.
NameAliases(img) == {<<img.org, "/">> \o img.short_name, img.short_name}

BundleAliases(img) ==
    IF img.name_in_bundle # <<>> THEN {img.name_in_bundle}
    ELSE {WithoutOse(img.short_name), <<"ose-">> \o WithoutOse(img.short_name)}

\* initialize is past lines 578-600 and did not raise there.
NamesRegistered ==
    \/ rt.pc \in {"load", "collide", "finish", "done"}
    \/ rt.pc = "failed" /\ rt.error \in {"Duplicate", "Clone"}

\* C27: the name-lookup maps are never completed over two image records
\* that claim the same alias: a collision on a full name, a short name or a
\* bundle name is fatal.
AliasCollisionFatal ==
    NamesRegistered =>
        \A i, j \in DOMAIN data.images :
            i # j => /\ NameAliases(data.images[i]) \cap NameAliases(data.images[j]) = {}
                     /\ BundleAliases(data.images[i]) \cap BundleAliases(data.images[j]) = {}

\* C29: push_distgits raises exactly when freeze_automation is 'yes' and
\* then pushes nothing; it raises whenever the group's flag is 'yes' and
\* initialize has read the group's settings, and no distgit is ever pushed
\* under a group whose flag is 'yes'.
FrozenRefusesPush ==
    /\ rt.push # "none" =>
          /\ rt.push = "raised" <=> rt.freeze_automation = "yes"
          /\ rt.push = "raised" => rt.pushed = {}
          /\ (PastSettings /\ data.group.freeze_automation = "yes") => rt.push = "raised"
    /\ PastSettings =>
          rt.freeze_automation = IF data.group.freeze_automation = ""
                                 THEN "no" ELSE data.group.freeze_automation
    /\ data.group.freeze_automation = "yes" => rt.pushed = {}

\* push_distgits was refused on an initialized runtime with distgits to push.
FrozenRefusesPushWitness ==
    /\ rt.initialized
    /\ all_metas # {}
    /\ rt.push = "raised"
    /\ rt.pushed = {}

\* ------------------------------------------------------------------------
\* The git cache: Runtime.git_clone with cache_dir set
\* ------------------------------------------------------------------------
NumCloners == 2

Cloners == 1..NumCloners

\* The doozer instances on the machine; the callers of one instance are
\* threads that share its Runtime and so its named semaphores.
Instances == {1, 2}

\* The remotes that are cloned: two spellings of one repository and another
\* repository.
ClonedUrls ==
    { SshUrl(<<"github.com", "org", "priv">>, TRUE),
      HttpsUrl(<<"github.com", "org", "priv">>),
      HttpsUrl(<<"github.com", "org">>) }

\* "normalized_url.split('//')[-1].replace('/', '_')": the parts after
\* "https://", joined by "_".
RECURSIVE Underscored(_)
Underscored(segs) ==
    IF Len(segs) <= 1 THEN segs
    ELSE <<Head(segs), "_">> \o Underscored(Tail(segs))

\* Lines 1189-1192: the mirror's directory under git_cache_dir.
repo_dir(remote_url) == Underscored(convert_remote_git_to_https(remote_url))

\* No mirror at repo_dir.
NoMirror == 0

\* git_clone is not yet called by c.
Cloner(instance, remote_url) ==
    [pc |-> "start", instance |-> instance, url |-> remote_url, found |-> FALSE,
     tmp |-> "none"]

MirrorInit ==
    /\ from_member = <<>>
    /\ TreeConstructed
    /\ PoolConstructed
    /\ SourceConstructed
    /\ SharedConstructed
    /\ RegistryIdle
    /\ UpstreamIdle
    /\ BranchIdle
    /\ InitIdle
    /\ FindIdle
    /\ SweepIdle
    /\ \E callers \in [Cloners -> [instance : Instances, url : ClonedUrls]] :
         git_cache = [callers |-> [c \in Cloners |->
                                      Cloner(callers[c].instance, callers[c].url)],
                      repo |-> [d \in {repo_dir(u) : u \in ClonedUrls} |-> NoMirror],
                      locks |-> {}]

MirrorFrame == UNCHANGED <<treeVars, poolVars, sourceVars, sharedVars, registryVars,
                           upstreamVars, branchVars, initVars, findVars, sweepVars>>

Caller(c) == git_cache.callers[c]

DirOf(c) == repo_dir(Caller(c).url)

\* The semaphore of the caller's Runtime for its repo_dir.
LockOf(c) == <<Caller(c).instance, DirOf(c)>>

\* Lines 1186-1195: the mirror's directory and "os.path.exists(repo_dir)".
clone_begin(c) ==
    /\ Caller(c).pc = "start"
    /\ LET found == git_cache.repo[DirOf(c)] # NoMirror
       IN  git_cache' = [git_cache EXCEPT
                !.callers[c].found = found,
                !.callers[c].pc = IF found THEN "fetch" ELSE "lock"]
    /\ MirrorFrame

\* Line 1201: "with self.get_named_semaphore(repo_dir, is_dir=True)".
clone_lock(c) ==
    /\ Caller(c).pc = "lock"
    /\ LockOf(c) \notin git_cache.locks
    /\ git_cache' = [git_cache EXCEPT
            !.locks = @ \cup {LockOf(c)},
            !.callers[c].pc = "init"]
    /\ MirrorFrame

\* An exception leaves the with block: the semaphore is released.
Raising(c, tmp) ==
    [git_cache EXCEPT
        !.locks = @ \ {LockOf(c)},
        !.callers[c].tmp = tmp,
        !.callers[c].pc = "raised"]

\* Lines 1202-1203: tempfile.mkdtemp and "git init --bare", which may fail;
\* repo_dir is not looked at again under the semaphore.
clone_init(c) ==
    /\ Caller(c).pc = "init"
    /\ \/ git_cache' = [git_cache EXCEPT
                !.callers[c].tmp = "bare",
                !.callers[c].pc = "remote"]
       \/ git_cache' = Raising(c, "empty")
    /\ MirrorFrame

\* Lines 1204-1205: "git remote add origin", which may fail.
clone_remote_add(c) ==
    /\ Caller(c).pc = "remote"
    /\ \/ git_cache' = [git_cache EXCEPT
                !.callers[c].tmp = "complete",
                !.callers[c].pc = "rename"]
       \/ git_cache' = Raising(c, "bare")
    /\ MirrorFrame

\* Lines 1207-1215 and the end of the with block: os.rename fails when
\* repo_dir is there (a repository is no empty directory), and may fail when
\* it is not; the failure is raised only if repo_dir is still missing.
clone_rename(c) ==
    /\ Caller(c).pc = "rename"
    /\ IF git_cache.repo[DirOf(c)] = NoMirror
       THEN \/ git_cache' = [git_cache EXCEPT
                    !.repo[DirOf(c)] = c,
                    !.locks = @ \ {LockOf(c)},
                    !.callers[c].tmp = "renamed",
                    !.callers[c].pc = "fetch"]
            \/ git_cache' = Raising(c, "complete")
       ELSE git_cache' = [git_cache EXCEPT
                !.locks = @ \ {LockOf(c)},
                !.callers[c].pc = "fetch"]
    /\ MirrorFrame

\* Lines 1217-1234: the fetch in repo_dir and the clone that refers to it.
clone_finish(c) ==
    /\ Caller(c).pc = "fetch"
    /\ git_cache' = [git_cache EXCEPT !.callers[c].pc = "done"]
    /\ MirrorFrame

MirrorNext ==
    \E c \in Cloners :
        \/ clone_begin(c)
        \/ clone_lock(c)
        \/ clone_init(c)
        \/ clone_remote_add(c)
        \/ clone_rename(c)
        \/ clone_finish(c)

SpecMirror == MirrorInit /\ [][MirrorNext]_vars

\* The callers that have initialized a bare repository for the mirror d.
Initializers(d) ==
    {c \in Cloners : DirOf(c) = d /\ Caller(c).tmp \in {"bare", "complete", "renamed"}}

\* C32: of the callers of git_clone for one remote url, at most one
\* initializes a mirror.
MirrorInitializedOnce ==
    \A c1, c2 \in Cloners :
        (/\ Caller(c1).url = Caller(c2).url
         /\ c1 \in Initializers(DirOf(c1))
         /\ c2 \in Initializers(DirOf(c2))) => c1 = c2

\* The mirror at repo_dir is the complete repository of one caller, whose
\* rename put it there; it is never replaced; a caller that found it in
\* place initializes nothing.
MirrorInPlaceOnce ==
    /\ \A d \in DOMAIN git_cache.repo :
          git_cache.repo[d] # NoMirror =>
              /\ DirOf(git_cache.repo[d]) = d
              /\ Caller(git_cache.repo[d]).tmp = "renamed"
              /\ \A c \in Cloners \ {git_cache.repo[d]} : Caller(c).tmp # "renamed" \/ DirOf(c) # d
    /\ \A c \in Cloners : Caller(c).found => Caller(c).tmp = "none"
    /\ \A c \in Cloners :
          Caller(c).pc \in {"fetch", "done"} => git_cache.repo[DirOf(c)] # NoMirror

MirrorNeverReplaced ==
    [][\A d \in DOMAIN git_cache.repo :
          git_cache.repo[d] # NoMirror => git_cache'.repo[d] = git_cache.repo[d]]_git_cache

\* ------------------------------------------------------------------------
\* elliott find-builds: find_builds_cli
\* ------------------------------------------------------------------------
\* The builds of the build system, by NVR.
Nvrs == {"x-1.0-1.el8", "y-2.0-1.el8"}

\* The advisory of --attach and the default advisory of the group config.
AttachedAdvisory == 5

DefaultAdvisory == 9

\* The command lines of find-builds, and whether errata tool config has
\* cdn_repos.
FindOptions ==
    [advisory_id : {NoAdvisory, AttachedAdvisory}, default_advisory_type : {"None", "rpm"},
     builds : {{}, {"x-1.0-1.el8"}}, kind : {"image", "rpm"}, remove : BOOLEAN,
     clean : BOOLEAN, no_cdn_repos : BOOLEAN, payload : BOOLEAN, non_payload : BOOLEAN,
     cdn_repos : BOOLEAN]

FindFrame == UNCHANGED <<treeVars, poolVars, sourceVars, sharedVars, registryVars,
                         upstreamVars, branchVars, initVars, mirrorVars, sweepVars>>

FindInit ==
    /\ from_member = <<>>
    /\ TreeConstructed
    /\ PoolConstructed
    /\ SourceConstructed
    /\ SharedConstructed
    /\ RegistryIdle
    /\ UpstreamIdle
    /\ BranchIdle
    /\ InitIdle
    /\ MirrorIdle
    /\ SweepIdle
    /\ \E args \in FindOptions : fb = Entered(args)

\* Lines 127-134: the first of the four checks that refuses the options.
OptionsConflict(args) ==
    IF args.clean /\ (args.remove \/ args.builds # {}) THEN "clean"
    ELSE IF args.remove /\ args.builds = {} THEN "remove"
    ELSE IF args.advisory_id # NoAdvisory /\ args.default_advisory_type # "None"
    THEN "advisory"
    ELSE IF args.payload /\ args.non_payload THEN "payload"
    ELSE ""

\* Lines 127-134: raise click.BadParameter(...)
fb_options ==
    /\ fb.pc = "options"
    /\ fb' = IF OptionsConflict(fb.args) # ""
             THEN [fb EXCEPT !.pc = "rejected", !.error = OptionsConflict(fb.args)]
             ELSE [fb EXCEPT !.pc = "initialize"]
    /\ FindFrame

\* Lines 136-144: runtime.initialize, the errata tool config, the default
\* advisory of the group, which is looked up or the command exits, and the
\* errata tool authentication; each may raise.
fb_initialize ==
    /\ fb.pc = "initialize"
    /\ \/ fb' = [fb EXCEPT !.pc = "failed", !.error = "initialize"]
       \/ /\ fb.args.default_advisory_type # "None"
          /\ \/ fb' = [fb EXCEPT !.pc = "fetch", !.initialized = TRUE,
                                  !.advisory_id = DefaultAdvisory]
             \/ fb' = [fb EXCEPT !.pc = "exited", !.initialized = TRUE,
                                  !.error = "default_advisory"]
       \/ /\ fb.args.default_advisory_type = "None"
          /\ fb' = [fb EXCEPT !.pc = "fetch", !.initialized = TRUE]
    /\ FindFrame

\* Lines 151-170: the builds given with --build that the build system
\* knows and that qualify, or the builds of the advisory for --clean, or the
\* builds of the kind found by the sweep.
fb_fetch ==
    /\ fb.pc = "fetch"
    /\ IF fb.args.builds # {}
       THEN \E found \in SUBSET fb.args.builds :
              fb' = [fb EXCEPT !.pc = "filter", !.unshipped_nvrps = found]
       ELSE IF fb.args.clean
       THEN \E attached \in SUBSET Nvrs :
              fb' = [fb EXCEPT !.pc = "filter", !.unshipped_builds = attached]
       ELSE \E swept \in SUBSET Nvrs :
              fb' = [fb EXCEPT !.pc = "filter", !.unshipped_nvrps = swept]
    /\ FindFrame

\* Lines 177-199: for an attach run, the builds are looked up in the errata
\* tool and those attached to an advisory are filtered out; with none left
\* the command returns.
fb_filter ==
    /\ fb.pc = "filter"
    /\ IF ~(fb.args.clean \/ fb.args.remove)
       THEN \E unattached \in SUBSET fb.unshipped_nvrps :
              fb' = [fb EXCEPT !.pc = IF unattached = {} THEN "done" ELSE "advisory",
                               !.unshipped_builds = unattached]
       ELSE fb' = [fb EXCEPT !.pc = "advisory"]
    /\ FindFrame

\* Nothing is ever found needless.
NeverNothingToDo(unshipped_builds, unshipped_nvrps, remove) == FALSE

\* Line 213: not unshipped_builds and not (remove and unshipped_nvrps)
NothingToDo(unshipped_builds, unshipped_nvrps, remove) ==
    unshipped_builds = {} /\ ~(remove /\ unshipped_nvrps # {})

\* Lines 201-215: without an advisory the builds are listed; without
\* builds the advisory is left alone.
fb_advisory ==
    /\ fb.pc = "advisory"
    /\ fb' = IF fb.advisory_id = NoAdvisory
             THEN [fb EXCEPT !.pc = "done"]
             ELSE IF NothingToDo(fb.unshipped_builds, fb.unshipped_nvrps, fb.args.remove)
             THEN [fb EXCEPT !.pc = "done"]
             ELSE [fb EXCEPT !.pc = "ensure_state"]
    /\ FindFrame

AdvisoryCall(name, builds) == [call |-> name, advisory |-> fb.advisory_id, builds |-> builds]

\* Lines 217-219: errata.Advisory(errata_id=advisory_id), which may raise
\* before any call, and erratum.ensure_state('NEW_FILES'), which may raise.
fb_ensure_state ==
    /\ fb.pc = "ensure_state"
    /\ \/ fb' = [fb EXCEPT !.pc = "exited", !.error = "ErrataException"]
       \/ \E next \in {"change", "exited"} :
             fb' = [fb EXCEPT !.pc = next,
                              !.error = IF next = "exited" THEN "ErrataException" ELSE "",
                              !.advisory_calls = Append(@, AdvisoryCall("ensure_state", {}))]
    /\ FindFrame

\* Lines 220-223
to_remove ==
    IF fb.args.remove THEN fb.unshipped_nvrps
    ELSE IF fb.args.clean THEN fb.unshipped_builds
    ELSE {}

\* Lines 225-232: the calls that change the advisory, in their order.
Changes ==
    IF to_remove # {}
    THEN <<AdvisoryCall("remove_builds", to_remove)>>
    ELSE <<AdvisoryCall("attach_builds", fb.unshipped_builds)>>
         \o (IF fb.args.kind = "image" /\ fb.args.cdn_repos /\ ~fb.args.no_cdn_repos
             THEN <<AdvisoryCall("set_cdn_repos", {})>> ELSE <<>>)

\* Lines 225-236: the calls are made up to the first that raises
\* ErrataException.
fb_change ==
    /\ fb.pc = "change"
    /\ \E n \in 1..Len(Changes) : \E raised \in BOOLEAN :
         /\ raised \/ n = Len(Changes)
         /\ fb' = [fb EXCEPT !.pc = IF raised THEN "exited" ELSE "done",
                             !.error = IF raised THEN "ErrataException" ELSE "",
                             !.advisory_calls = @ \o SubSeq(Changes, 1, n)]
    /\ FindFrame

FindNext ==
    \/ fb_options
    \/ fb_initialize
    \/ fb_fetch
    \/ fb_filter
    \/ fb_advisory
    \/ fb_ensure_state
    \/ fb_change

SpecFindBuilds == FindInit /\ [][FindNext]_vars

\* An attach run: neither --remove nor --clean.
AttachRun == ~(fb.args.remove \/ fb.args.clean)

\* C39: find-builds calls the advisory (ensure_state, attach_builds,
\* remove_builds, set_cdn_repos) only with an advisory id, on an initialized
\* runtime, with builds to attach for an attach run, and with builds at hand
\* or the found builds of a --remove of builds given with --build; and
\* options that conflict are refused before runtime.initialize is called.
AdvisoryLeftAlone ==
    /\ fb.advisory_calls # <<>> =>
          /\ fb.advisory_id # NoAdvisory
          /\ fb.initialized
          /\ AttachRun => fb.unshipped_builds # {}
          /\ \/ fb.unshipped_builds # {}
             \/ fb.args.remove /\ fb.args.builds # {} /\ fb.unshipped_nvrps # {}
          /\ \A i \in DOMAIN fb.advisory_calls :
                /\ fb.advisory_calls[i].advisory = fb.advisory_id
                /\ fb.advisory_calls[i].call \in {"attach_builds", "remove_builds"} =>
                      fb.advisory_calls[i].builds # {}
    /\ OptionsConflict(fb.args) # "" =>
          /\ ~fb.initialized
          /\ fb.advisory_calls = <<>>
          /\ fb.pc \in {"options", "rejected"}

\* An attach run with an advisory found builds, all of them attached to
\* advisories already, and returned without a call on the advisory.
AdvisoryLeftAloneWitness ==
    /\ fb.pc = "done"
    /\ AttachRun
    /\ fb.advisory_id = AttachedAdvisory
    /\ fb.unshipped_nvrps # {}
    /\ fb.unshipped_builds = {}
    /\ fb.advisory_calls = <<>>

\* ------------------------------------------------------------------------
\* elliott find-builds: the rpm sweep, _fetch_builds_by_kind_rpm
\* ------------------------------------------------------------------------
\* The most tags of brew_tag_product_version_mapping.
MaxTags == 2

\* The tags, with what isolate_el_version_in_brew_tag answers for them: 0
\* for None.
SweptTags ==
    { [name |-> "rhaos-4.14-rhel-8-candidate", el_version |-> 8],
      [name |-> "rhaos-4.14-rhel-9-candidate", el_version |-> 9],
      [name |-> "rhaos-4.14-candidate", el_version |-> 0] }

\* The rpms of runtime.rpm_map, and the rpms the group does not build.
MemberRpms == {"openshift"}

OtherRpms == {"openvswitch"}

\* The build ids of the components.
BuildIds == [openshift |-> {11, 12, 13}, openvswitch |-> {21, 22}]

\* The dictionaries of component name to build, over some of the components.
BuildsOf(components, ids) ==
    UNION {[chosen -> ids] : chosen \in SUBSET components}

WithIds(builds) == \A c \in DOMAIN builds : builds[c] \in BuildIds[c]

\* builder.from_tag("rpm", tag, ...): the latest build of every component
\* of the tag.
FromTag == {b \in BuildsOf(MemberRpms \cup OtherRpms, {11, 12, 21}) : WithIds(b)}

\* builder.from_pinned_by_is(el_version, ...): the builds the rpms of
\* rpm_map are pinned to by "is".
PinnedByIs == {b \in BuildsOf(MemberRpms, {12, 13}) : WithIds(b)}

\* builder.from_group_deps(el_version, ...): the builds of the group's
\* dependencies, among which there is no rpm of rpm_map.
GroupDeps == {b \in BuildsOf(OtherRpms, {21, 22}) : WithIds(b)}

SweepFrame == UNCHANGED <<treeVars, poolVars, sourceVars, sharedVars, registryVars,
                          upstreamVars, branchVars, initVars, mirrorVars, findVars>>

SweepInit ==
    /\ from_member = <<>>
    /\ TreeConstructed
    /\ PoolConstructed
    /\ SourceConstructed
    /\ SharedConstructed
    /\ RegistryIdle
    /\ UpstreamIdle
    /\ BranchIdle
    /\ InitIdle
    /\ MirrorIdle
    /\ FindIdle
    /\ \E basis_event \in {NoEvent, 5} : \E dependencies \in BOOLEAN :
       \E tags \in {l \in SeqsUpTo(SweptTags, MaxTags) :
                       \A i, j \in DOMAIN l : l[i] = l[j] => i = j} :
         sweep = SweepEntered(basis_event, dependencies, tags)

\* Lines 417-431: with a basis event the rpms come from the stream
\* assembly, and an assembly with rpm dependencies of image members or of
\* RHCOS is refused.
sweep_begin ==
    /\ sweep.pc = "begin"
    /\ sweep' = IF sweep.assembly_basis_event = NoEvent
                THEN [sweep EXCEPT !.pc = "tags"]
                ELSE IF sweep.member_dependencies
                THEN [sweep EXCEPT !.pc = "failed", !.error = "ElliottFatalError",
                                   !.assembly = "stream"]
                ELSE [sweep EXCEPT !.pc = "tags", !.assembly = "stream"]
    /\ SweepFrame

\* The entries of d are kept.
update_missing(d, other) == d @@ other

\* dict.update: the entries of other replace those of d.
update(d, other) == other @@ d

\* Lines 444-471 for one tag: the builds of the tag and, with a basis
\* event and a tag of a RHEL version, the pinned builds, which must have an
\* accepted tag, and the group's dependencies over them.
sweep_tag ==
    /\ sweep.pc = "tags"
    /\ sweep.tags # <<>>
    /\ LET tag == Head(sweep.tags)
       IN  \E component_builds \in FromTag :
             IF sweep.assembly_basis_event = NoEvent
             THEN sweep' = [sweep EXCEPT
                      !.tags = Tail(@),
                      !.answers = [NoAnswers EXCEPT !.tag = tag.name,
                                      !.el_version = tag.el_version,
                                      !.from_tag = component_builds,
                                      !.component_builds = component_builds],
                      !.builds = Append(@, component_builds)]
             ELSE IF tag.el_version = 0
             THEN sweep' = [sweep EXCEPT
                      !.tags = Tail(@),
                      !.answers = [NoAnswers EXCEPT !.tag = tag.name,
                                      !.from_tag = component_builds]]
             ELSE \E pinned_by_is \in PinnedByIs :
                    \/ /\ pinned_by_is # <<>>
                       /\ sweep' = [sweep EXCEPT
                               !.pc = "failed", !.error = "IOError",
                               !.answers = [NoAnswers EXCEPT !.tag = tag.name,
                                               !.el_version = tag.el_version,
                                               !.from_tag = component_builds,
                                               !.pinned_by_is = pinned_by_is]]
                    \/ \E group_deps \in GroupDeps :
                         LET chosen == update(update(component_builds, pinned_by_is),
                                              group_deps)
                         IN  sweep' = [sweep EXCEPT
                                 !.tags = Tail(@),
                                 !.answers = [tag |-> tag.name,
                                              el_version |-> tag.el_version,
                                              from_tag |-> component_builds,
                                              pinned_by_is |-> pinned_by_is,
                                              group_deps |-> group_deps,
                                              component_builds |-> chosen],
                                 !.builds = Append(@, chosen)]
    /\ SweepFrame

\* The builds gathered, tag after tag.
Gathered(builds) == UNION {{builds[i][c] : c \in DOMAIN builds[i]} : i \in DOMAIN builds}

\* Lines 473-493: the builds with an accepted tag that are not shipped.
sweep_end ==
    /\ sweep.pc = "tags"
    /\ sweep.tags = <<>>
    /\ \E unshipped \in SUBSET Gathered(sweep.builds) :
         sweep' = [sweep EXCEPT !.pc = "done", !.nvrps = unshipped]
    /\ SweepFrame

SweepNext ==
    \/ sweep_begin
    \/ sweep_tag
    \/ sweep_end

SpecSweep == SweepInit /\ [][SweepNext]_vars

\* The tag gone through last was one of a RHEL version, under a basis event.
PinsHonoured ==
    /\ sweep.assembly_basis_event # NoEvent
    /\ sweep.answers.el_version # 0
    /\ sweep.pc \in {"tags", "done"}

Got(t) == reg_pc[t] \in {"leave", "done"}

SameKey(t) == {u \in Tasks : Got(u) /\ KeyOf(u) = KeyOf(t)}

StoredReturned ==
    \A t \in Tasks :
        Got(t) =>
            /\ reg_got[t].sem = named_semaphores[KeyOf(t)]
            /\ IF KeyOf(t) = RegistryKey
               THEN ~reg_got[t].created
               ELSE /\ Cardinality({u \in SameKey(t) : reg_got[u].created}) = 1
                    /\ reg_got[t].created
                          => sem_permits[reg_got[t].sem] = reg_args[t].count

RECURSIVE Resolve(_, _)
Resolve(parts, done) ==
    IF parts = <<>> THEN done
    ELSE IF Head(parts) = ".."
    THEN Resolve(Tail(parts), IF done = <<>> THEN <<>> ELSE SubSeq(done, 1, Len(done) - 1))
    ELSE Resolve(Tail(parts), Append(done, Head(parts)))

\* The parts of the absolute path of a spelling, ".." parts kept.
AbsoluteParts(text) == IF IsAbsolute(text) THEN PathParts(text) ELSE Cwd \o PathParts(text)

SameDirectory(a, b) == Resolve(AbsoluteParts(a), <<>>) = Resolve(AbsoluteParts(b), <<>>)

AtomicCheckAndCreate ==
    /\ Cardinality({t \in Tasks : reg_pc[t] \in {"check", "create", "leave"}}) <= 1
    /\ Cardinality(DOMAIN sem_permits) = Cardinality(DOMAIN named_semaphores)
    /\ \A k, l \in DOMAIN named_semaphores :
          named_semaphores[k] = named_semaphores[l] => k = l
    /\ \A t \in Tasks :
          Got(t) =>
              /\ Cardinality({u \in SameKey(t) : reg_got[u].created}) <= 1
              /\ \A u \in SameKey(t) : reg_got[u].sem = reg_got[t].sem

\* Two callers race for one new key: one is about to create the semaphore,
\* the other waits for the lock of the registry.
AtomicCheckAndCreateWitness ==
    \E t, u \in Tasks :
        /\ reg_pc[t] = "create" /\ reg_pc[u] = "guard"
        /\ KeyOf(t) = KeyOf(u)
        /\ KeyOf(t) \notin DOMAIN named_semaphores

\* C16 as stated: no call is returned the lock of the registry.
GuardReserved ==
    \A t \in Tasks : Got(t) => reg_got[t].sem # named_semaphores[RegistryKey]

\* ------------------------------------------------------------------------
\* Properties of source resolution
\* ------------------------------------------------------------------------
\* The callers that resolve the alias, and those inside its semaphore.
CallersOf(alias) == {t \in Resolvers : r_pc[t] # "idle" /\ r_alias[t] = alias}

InsideLock(t) == r_pc[t] \in {"locked", "detect", "clone", "register", "unlock"}

RaisedIn(t) == r_result[t].kind \notin {"none", "path", "None"}

\* The callers of the alias all began while it was unresolved and its
\* directory absent, and all have finished.
RaceOver(alias) ==
    /\ CallersOf(alias) # {}
    /\ \A t \in CallersOf(alias) : r_found[t] = "nothing" /\ r_pc[t] = "done"

ResolvedAliases == {"a", "ns_k3_repo"}

\* C3 as stated: the callers that raced for an unresolved alias without
\* directory performed exactly one clone operation in total, and every one
\* of them returned the same path.
OneCloneInTotal ==
    \A alias \in ResolvedAliases :
        RaceOver(alias) =>
            /\ Cardinality({t \in CallersOf(alias) : r_clone[t] # "no"}) = 1
            /\ \A t, u \in CallersOf(alias) :
                   /\ r_result[t].kind = "path"
                   /\ r_result[t] = r_result[u]

\* C3, amended: the clones of one alias are serialized by its semaphore and
\* at most one of them succeeds; the calls that return return the same
\* path; and when no call for the alias raised, exactly one clone operation
\* was performed in total. (A clone, a branch detection or a registration
\* that fails raises in its caller, and a later caller clones again.)
OneCloneUnlessFailure ==
    \A alias \in ResolvedAliases :
        /\ Cardinality({t \in CallersOf(alias) : InsideLock(t)}) <= 1
        /\ Cardinality({t \in CallersOf(alias) : r_clone[t] = "ok"}) <= 1
        /\ \A t, u \in CallersOf(alias) :
               (r_result[t].kind = "path" /\ r_result[u].kind = "path")
                   => r_result[t] = r_result[u]
        /\ (RaceOver(alias) /\ \A t \in CallersOf(alias) : ~RaisedIn(t))
               => Cardinality({t \in CallersOf(alias) : r_clone[t] # "no"}) = 1

\* Two callers raced for the alias "a": both waited for its semaphore, one
\* cloned, and both returned the source directory.
OneCloneUnlessFailureWitness ==
    \E t, u \in CallersOf("a") :
        /\ t # u
        /\ RaceOver("a")
        /\ r_locked[t] /\ r_locked[u]
        /\ r_clone[t] = "ok" /\ r_clone[u] = "no"
        /\ r_result[t] = Returned(SourceDir(TRUE, "a"))
        /\ r_result[u] = r_result[t]

\* C4: a call for an alias that register_source_alias has registered
\* returns the registered path at once, without clone and without taking
\* the semaphore; so do two such calls one after the other.
RegisteredFastPath ==
    \A t \in Resolvers :
        (r_pc[t] # "idle" /\ r_found[t] = "registered") =>
            /\ r_pc[t] = "done"
            /\ r_result[t] = Returned(source_resolutions[r_alias[t]])
            /\ ~r_locked[t]
            /\ r_clone[t] = "no"

\* "--source a <path>" was registered, and two calls for "a" returned its
\* path: no semaphore exists for the alias, nothing was cloned.
RegisteredFastPathWitness ==
    \E t, u \in CallersOf("a") :
        /\ t # u
        /\ r_found[t] = "registered" /\ r_found[u] = "registered"
        /\ r_pc[t] = "done" /\ r_pc[u] = "done"
        /\ r_result[t].kind = "path" /\ r_result[t].path \in CliPaths
        /\ r_result[u] = r_result[t]
        /\ DOMAIN named_semaphores = {RegistryKey}
        /\ dirs = {}

\* The step of caller t inside the semaphore that finds the alias not cached
\* and its source directory on disk.
FindsDirectory(t) ==
    /\ r_pc[t] = "locked" /\ r_pc'[t] # "locked"
    /\ r_alias[t] \notin DOMAIN source_resolutions
    /\ r_dir[t] \in dirs

InitializedOnlyAtEnd ==
    /\ [](rt.initialized =>
             /\ opts.stop = "full"
             /\ rt.pc = "done"
             /\ rt.error = "")
    /\ [][~rt.initialized /\ rt'.initialized =>
             /\ rt.pc = "finish"
             /\ rt' = [rt EXCEPT !.pc = "done", !.initialized = TRUE,
                                 !.cloned = opts.clone_distgits]]_vars
    /\ [][rt.pc \in {"returned", "failed"} => ~rt'.initialized]_vars
    /\ [][rt.initialized /\ rt'.again # rt.again =>
             /\ rt' = [rt EXCEPT !.again = @ + 1]
             /\ UNCHANGED <<opts, data>>
             /\ UNCHANGED <<treeVars, poolVars, sourceVars, sharedVars, registryVars,
                            upstreamVars, branchVars, restVars>>]_vars

\* A full run has loaded its metadata and set the flag, and initialize was
\* called again.
InitializedOnlyAtEndWitness ==
    /\ rt.initialized
    /\ rt.again > 0
    /\ rt.image_map # <<>>
    /\ rt.pc = "done"

\* The step in which the call of t raises inside the semaphore.
RaisesInside(t) ==
    /\ r_locked[t]
    /\ r_result[t].kind = "none"
    /\ r_result'[t].kind \notin {"none", "path", "None"}

\* The callers that hold the permit of the semaphore.
HoldersOf(sem) == {t \in Resolvers : InsideLock(t) /\ r_sem[t] = sem}

\* Every semaphore of a source directory has its permit or one holder: a
\* call that is over, however it ended, holds nothing.
PermitsAccounted ==
    \A t \in Resolvers :
        r_locked[t] =>
            /\ sem_permits[r_sem[t]] + Cardinality(HoldersOf(r_sem[t])) = 1
            /\ r_pc[t] = "done" => t \notin HoldersOf(r_sem[t])

\* C37 as stated: whatever error a call raises inside the semaphore, the
\* semaphore is released and the alias stays unresolved.
ErrorLeavesUnresolved ==
    /\ []PermitsAccounted
    /\ [][\A t \in Resolvers :
             RaisesInside(t) =>
                 /\ source_resolutions' = source_resolutions
                 /\ r_alias[t] \notin DOMAIN source_resolutions']_vars

\* The errors raised once the alias is registered: the refresh of an
\* existing directory and the checkout of the commit-ish.
LateErrors == {"refresh_failed", "commitish_failed"}

\* C37, amended: whatever error a call raises inside the semaphore, the
\* semaphore is released when the call ends, so that a caller of the same
\* alias can take it; the alias stays unresolved when the error comes before
\* the registration (cloning prevented, branch not found, clone failure,
\* failed registration), and is registered under the source directory when
\* it comes after (failed refresh, failed checkout of the commit-ish).
ErrorReleasesLock ==
    /\ []PermitsAccounted
    /\ [][\A t \in Resolvers :
             RaisesInside(t) =>
                 IF r_result'[t].kind \in LateErrors
                 THEN /\ r_alias[t] \in DOMAIN source_resolutions'
                      /\ source_resolutions'[r_alias[t]] = r_dir[t]
                 ELSE /\ source_resolutions' = source_resolutions
                      /\ r_alias[t] \notin DOMAIN source_resolutions']_vars

\* The clone of one caller failed; a second caller of the same alias, which
\* found the alias unresolved, took the semaphore after it, cloned and
\* returned the directory.
ErrorReleasesLockWitness ==
    \E t, u \in CallersOf("a") :
        /\ t # u
        /\ r_pc[t] = "done" /\ r_result[t] = Raised("clone_failed")
        /\ r_pc[u] = "done" /\ r_locked[u] /\ r_sem[u] = r_sem[t]
        /\ r_found[u] = "nothing"
        /\ r_clone[u] = "ok"
        /\ r_result[u] = Returned(SourceDir(TRUE, "a"))

\* C5 as stated: an entry of source_resolutions, once written, is never
\* written again with another value, whatever the registrations and calls.
WrittenOnce ==
    [][\A alias \in DOMAIN source_resolutions :
           /\ alias \in DOMAIN source_resolutions'
           /\ source_resolutions'[alias] = source_resolutions[alias]]_vars

\* C30: when the clone step fails, the partial source directory is removed,
\* the alias is not added to source_resolutions, and the fatal error of
\* line 1359, naming the alias and the branch, is raised.
CloneFailureCleansUp ==
    [][\A t \in Resolvers :
          (r_clone[t] # "failed" /\ r_clone'[t] = "failed") =>
              /\ r_dir[t] \notin dirs'
              /\ source_resolutions' = source_resolutions
              /\ r_result'[t] = Raised("clone_failed")
              /\ {"alias", "branch"} \subseteq CloneErrorNames]_vars

\* ------------------------------------------------------------------------
\* Properties of the pooled koji sessions
\* ------------------------------------------------------------------------
\* The body of task t's k-th context is running (an outer body is running
\* while the task is in, or is opening, an inner context).
InBody(t, k) ==
    k \in DOMAIN leases[t] /\ (k < Len(leases[t]) \/ pool_pc[t] \in {"body", "acquire", "sleep"})

\* The session objects held by the open contexts of a task.
Held(t) == {leases[t][k].session : k \in DOMAIN leases[t]}

\* C6: no two open pooled_koji_client_session contexts hold the same
\* session object, be they contexts of one task (nested) or of two tasks: a
\* session handed out is not handed out again before the context that got
\* it has put it back.
ExclusiveLease ==
    /\ \A t \in Tasks : Cardinality(Held(t)) = Len(leases[t])
    /\ \A t \in Tasks : \A u \in Tasks : t # u => Held(t) \cap Held(u) = {}

\* Two tasks are in the bodies of their contexts, one of them in nested
\* contexts, while a session that was handed back is available.
ExclusiveLeaseWitness ==
    /\ session_pool_available # <<>>
    /\ \E t \in Tasks : \E u \in Tasks :
          /\ t # u
          /\ pool_pc[t] = "body" /\ Len(leases[t]) > 1
          /\ pool_pc[u] = "body" /\ leases[u] # <<>>

AvailableIn(avail, id, session) ==
    \E i \in DOMAIN avail : avail[i] = [id |-> id, session |-> session]

\* C7: whenever the body of a context ends, normally or with an exception,
\* the task runs the finally block, and when the context is left the slot id
\* of its session is in session_pool_available again, with that session.
ReturnedOnExit ==
    [][\A t \in Tasks :
          /\ (pool_pc[t] = "body" /\ pool_pc'[t] \notin {"body", "acquire"})
                => (pool_pc'[t] = "finally" /\ leases'[t] = leases[t])
          /\ Len(leases'[t]) < Len(leases[t])
                => AvailableIn(session_pool_available', Top(t).id, Top(t).session)]_vars

\* The body of a context ended with an exception and its finally block has
\* come to the statement that puts the session back.
ReturnedOnExitWitness ==
    \E t \in Tasks :
        /\ exit_kind[t] = "error"
        /\ pool_pc[t] = "put_back"
        /\ ~AvailableIn(session_pool_available, Top(t).id, Top(t).session)

\* C8: the session pool never holds more than 30 sessions.
PoolBounded == Cardinality(DOMAIN session_pool) <= 30

\* The pool is full and a caller waits.
PoolBoundedWitness ==
    /\ Cardinality(DOMAIN session_pool) = 30
    /\ \E t \in Tasks : pool_pc[t] = "sleep"

\* C9: a session is built only when no session is available and the pool
\* has fewer than 30 sessions; when a session is available the caller leases
\* one of the available sessions and the pool does not grow; when none is
\* available and the pool is full the caller leases nothing, sleeps, and then
\* takes the whole decision again.
AcquireDecision ==
    [][/\ session_pool' # session_pool
            => (session_pool_available = <<>> /\ Cardinality(DOMAIN session_pool) < 30)
       /\ \A t \in Tasks :
            /\ (pool_pc[t] = "acquire" /\ pool_pc'[t] # "acquire" /\ session_pool_available # <<>>)
                  => /\ session_pool' = session_pool
                     /\ Len(leases'[t]) = Len(leases[t]) + 1
                     /\ AvailableIn(session_pool_available,
                                    leases'[t][Len(leases'[t])].id,
                                    leases'[t][Len(leases'[t])].session)
                     /\ ~AvailableIn(session_pool_available',
                                     leases'[t][Len(leases'[t])].id,
                                     leases'[t][Len(leases'[t])].session)
            /\ (pool_pc[t] = "acquire" /\ pool_pc'[t] # "acquire" /\ session_pool_available = <<>>
                    /\ Cardinality(DOMAIN session_pool) >= 30)
                  => /\ pool_pc'[t] = "sleep"
                     /\ UNCHANGED <<session_pool, session_pool_available, leases>>
            /\ (pool_pc[t] = "sleep" /\ pool_pc'[t] # "sleep")
                  => /\ pool_pc'[t] = "acquire"
                     /\ UNCHANGED <<session_pool, session_pool_available, leases>>]_vars

\* A caller waits on the full pool while a session has become available.
AcquireDecisionWitness ==
    /\ Cardinality(DOMAIN session_pool) = 30
    /\ session_pool_available # <<>>
    /\ \E t \in Tasks : pool_pc[t] = "sleep"

\* C10: every session in session_pool_available has force_instance_caching
\* False, and while the body of a context opened with caching=False runs,
\* its session has the flag False.
CachingReset ==
    /\ \A i \in DOMAIN session_pool_available :
          force_instance_caching[session_pool_available[i].session] = FALSE
    /\ \A t \in Tasks : \A k \in DOMAIN leases[t] :
          (InBody(t, k) /\ ~leases[t][k].caching)
              => force_instance_caching[leases[t][k].session] = FALSE

\* A session that was once handed out with caching=True is in the body of a
\* context opened with caching=False.
CachingResetWitness ==
    \E t \in Tasks :
        /\ pool_pc[t] = "body" /\ leases[t] # <<>>
        /\ ~Top(t).caching
        /\ Top(t).session \in ever_caching

\* The task waits for a session: it is in the "while True" loop.
Waiting(t) == pool_pc[t] \in {"acquire", "sleep"}

\* All 30 sessions are leased, and every task that holds a session asks for
\* another one before releasing what it holds.
Deadlocked ==
    /\ Cardinality(DOMAIN session_pool) = PoolCap
    /\ session_pool_available = <<>>
    /\ \E t \in Tasks : Waiting(t)
    /\ \A t \in Tasks : leases[t] # <<>> => Waiting(t)

\* C11: nested acquisitions can deadlock. Once all 30 sessions are held by
\* tasks that each wait for one more, that stays so for ever: every pass of
\* a waiting task through the loop decides to wait, no task obtains a
\* session or leaves a context, no session comes back, no error is raised.
NestedDeadlock ==
    [][Deadlocked =>
          /\ Deadlocked'
          /\ Decision(session_pool_available, session_pool) = "wait"
          /\ UNCHANGED <<session_pool, session_pool_available, leases, exit_kind>>
          /\ \A t \in Tasks : Waiting(t) => Waiting(t)']_vars

\* Every task holds a session and waits for a second one.
NestedDeadlockWitness ==
    /\ Deadlocked
    /\ \A t \in Tasks : leases[t] # <<>> /\ pool_pc[t] = "sleep"

\* The slots that are available, and the slots that are leased.
AvailableSlots == DictKeys(session_pool_available)

LeasedSlots ==
    UNION {{leases[t][k].id : k \in DOMAIN leases[t]} : t \in Tasks} \cup crowd.held

\* The leases that are open.
OpenLeases == UNION {{<<t, k>> : k \in DOMAIN leases[t]} : t \in Tasks}

\* The slot ids of session_pool are 0..n-1, with a session of its own each;
\* an item of session_pool_available is a slot of session_pool with its
\* session, once; every slot is available or leased, never both and never
\* neither, and no two leases hold the same slot; a lease holds the session
\* of its slot.
SlotsAccounted ==
    /\ DOMAIN session_pool = 0..(Cardinality(DOMAIN session_pool) - 1)
    /\ Cardinality({session_pool[id] : id \in DOMAIN session_pool})
           = Cardinality(DOMAIN session_pool)
    /\ \A i \in DOMAIN session_pool_available :
          /\ session_pool_available[i].id \in DOMAIN session_pool
          /\ session_pool_available[i].session =
                 session_pool[session_pool_available[i].id]
    /\ Cardinality(AvailableSlots) = Len(session_pool_available)
    /\ AvailableSlots \cap LeasedSlots = {}
    /\ AvailableSlots \cup LeasedSlots = DOMAIN session_pool
    /\ Cardinality(LeasedSlots) = Cardinality(OpenLeases) + Cardinality(crowd.held)
    /\ \A t \in Tasks : \A k \in DOMAIN leases[t] :
          leases[t][k].session = session_pool[leases[t][k].id]

\* C36: the slot ids of session_pool are 0..n-1; an item of
\* session_pool_available is a slot of session_pool with its session, once;
\* every slot is available or held by exactly one lease, never both and
\* never neither, the lease holding the slot's session; and when the pool
\* changes, every slot keeps its session.
PoolWellFormed ==
    /\ []SlotsAccounted
    /\ [][session_pool' # session_pool =>
             \A id \in DOMAIN session_pool :
                 id \in DOMAIN session_pool' /\ session_pool'[id] = session_pool[id]]_vars

\* The pool has grown by two sessions in the run; one of them has been put
\* back and is available, the other is leased.
PoolWellFormedWitness ==
    \E id \in DOMAIN session_pool : \E other \in DOMAIN session_pool :
        /\ id # other
        /\ AvailableIn(session_pool_available, id, session_pool[id])
        /\ \E t \in Tasks : t # 1 /\ pool_pc[t] = "body" /\ leases[t] # <<>>
                              /\ Top(t).id = other
        /\ calls >= 2

\* C35 as stated: no task nesting its contexts and every lease being
\* released, every caller inside the loop of pooled_koji_client_session
\* eventually obtains a session.
EventuallyServed ==
    \A t \in Callers : (pool_pc[t] = "acquire") ~> (pool_pc[t] = "enter")

\* C35, amended: no task nesting its contexts and every lease being
\* released, a caller inside the loop eventually obtains a session once the
\* other workers have stopped asking for sessions, also when it arrived
\* while all 30 sessions were leased. (While they go on asking, they may take
\* every released session between two polls of the caller, for ever.)
ServedOnceOthersStop ==
    \A t \in Callers :
        (pool_pc[t] = "acquire" /\ ~crowd.calling) ~> (pool_pc[t] = "enter")

\* The caller has been handed a session of the full pool, all other 29
\* sessions being leased, after the crowd stopped asking.
ServedOnceOthersStopWitness ==
    \E t \in Callers :
        /\ pool_pc[t] = "enter"
        /\ ~crowd.calling
        /\ Cardinality(DOMAIN session_pool) = PoolCap
        /\ Cardinality(crowd.held) = PoolCap - 1
        /\ session_pool_available = <<>>

\* ------------------------------------------------------------------------
\* Image metadata graph: initialize and filter_failed_image_trees
\* ------------------------------------------------------------------------
TreeInit ==
    /\ \E n \in 0..MaxImages : from_member \in [1..n -> 0..n]
    /\ TreeConstructed
    /\ PoolConstructed
    /\ SourceConstructed
    /\ LaterConstructed

\* Runtime.initialize, the image part (mode 'images'): load, resolve the
\* parents, check for cycles, generate the tree.
initialize_images ==
    /\ init_pc = "new"
    /\ LET imap == LoadedImages(Cardinality(DOMAIN from_member))
           par  == ResolvedParent(imap, from_member)
           chl  == ResolvedChildren(imap, par)
       IN  /\ image_map' = imap
           /\ parent' = par
           /\ children' = chl
           /\ IF CyclicDependency(imap, par, chl)
              THEN /\ init_pc' = "fatal"
                   /\ UNCHANGED <<image_tree, image_order>>
              ELSE LET g == generate_image_tree(imap, par, chl)
                   IN  /\ image_tree' = g.image_tree
                       /\ image_order' = g.image_order
                       /\ init_pc' = "ready"
    /\ UNCHANGED <<from_member, failed_out, failed_in>>
    /\ UNCHANGED poolVars
    /\ UNCHANGED sourceVars
    /\ UNCHANGED laterVars

\* The lists a caller passes as failed: up to MaxFailed distgit keys, loaded
\* or not, each named once.
FailedLists ==
    {l \in SeqsUpTo(1..MaxImages, MaxFailed) : \A i, j \in DOMAIN l : l[i] = l[j] => i = j}

\* Runtime.filter_failed_image_trees(failed)
filter_failed_image_trees ==
    /\ init_pc = "ready"
    /\ \E failed \in FailedLists :
         LET all  == FailedLoop(image_order, parent, failed, 1)
             imap == DeleteFailed(image_map, all)
             g    == generate_image_tree(imap, parent, children)
         IN  /\ image_map' = imap
             /\ image_tree' = g.image_tree
             /\ image_order' = g.image_order
             /\ failed_out' = all
             /\ failed_in' = failed
    /\ UNCHANGED <<from_member, parent, children, init_pc>>
    /\ UNCHANGED poolVars
    /\ UNCHANGED sourceVars
    /\ UNCHANGED laterVars

TreeNext == initialize_images \/ filter_failed_image_trees

SpecTree == TreeInit /\ [][TreeNext]_vars

\* ------------------------------------------------------------------------
\* Properties of the image metadata graph
\* ------------------------------------------------------------------------
Before(order, a, b) ==
    /\ a \in Range(order)
    /\ b \in Range(order)
    /\ IndexOf(order, a) < IndexOf(order, b)

DeclaredCycle ==
    \E S \in SUBSET (DOMAIN from_member) :
        S # {} /\ \A i \in S : from_member[i] \in S

\* C2: when the parent/child relation of the loaded images has a cycle (an
\* image that is its own parent included), initialize ends in the fatal
\* error and generate_image_tree has not run: image_order and image_tree
\* stay as constructed.
CycleIsFatal ==
    (DeclaredCycle /\ init_pc # "new") =>
        (init_pc = "fatal" /\ image_order = <<>> /\ image_tree = {})

\* initialize has failed on a cycle through three different images.
CycleIsFatalWitness ==
    /\ init_pc = "fatal"
    /\ \E a \in DOMAIN parent : \E b \in DOMAIN parent : \E c \in DOMAIN parent :
          /\ a # b /\ b # c /\ a # c
          /\ parent[a] = b /\ parent[b] = c /\ parent[c] = a

\* The images of the set that have an ancestor among those named in failed.
RECURSIVE HasFailedAncestor(_, _, _)
HasFailedAncestor(x, failed, fuel) ==
    /\ fuel > 0
    /\ parent[x] # NoImage
    /\ (parent[x] \in failed \/ HasFailedAncestor(parent[x], failed, fuel - 1))

DescendantsOf(failed, images) ==
    {x \in images : HasFailedAncestor(x, failed, MaxImages + 1)}

\* The keys of the nested dict image_tree.
TreeKeys(tree) == UNION {Range(p) : p \in tree}

\* image_order and image_tree are those of the images of the map: the
\* order lists each of them once, parents first, and the tree holds each of
\* them under the chain of its ancestors.
Regenerated(imap, order, tree) ==
    /\ Range(order) = Range(imap)
    /\ Len(order) = Len(imap)
    /\ TreeKeys(tree) = Range(imap)
    /\ \A p \in tree : /\ p # <<>>
                       /\ parent[p[1]] = NoImage
                       /\ \A i \in 2..Len(p) : parent[p[i]] = p[i - 1]
    /\ \A x \in Range(imap) :
          parent[x] # NoImage => Before(order, parent[x], x)

\* C28: a call of filter_failed_image_trees(failed) returns a list that
\* holds every loaded descendant of an image named in failed; afterwards
\* those descendants are in none of image_map, image_order and image_tree,
\* the images removed are named in failed or descend from one that is, and
\* image_order and image_tree are those of the images that remain.
FailurePropagates ==
    [][init_pc = "ready" =>
          LET named       == Range(failed_in')
              descendants == DescendantsOf(named, Range(image_map))
          IN  /\ descendants \subseteq Range(failed_out')
              /\ descendants \cap Range(image_map') = {}
              /\ descendants \cap Range(image_order') = {}
              /\ descendants \cap TreeKeys(image_tree') = {}
              /\ Range(image_map) \ Range(image_map') = (named \cup descendants) \cap Range(image_map)
              /\ Regenerated(image_map', image_order', image_tree')]_treeVars

\* A failed root took its child and its grandchild with it.
FailurePropagatesWitness ==
    /\ init_pc = "ready"
    /\ Len(failed_in) = 1
    /\ Len(failed_out) = 3
    /\ parent[failed_out[3]] = failed_out[2]
    /\ parent[failed_out[2]] = failed_out[1]
    /\ failed_out[3] \notin Range(image_map)
    /\ failed_out[3] \notin Range(image_order)

====
